---- MODULE Spec2Model ----
(***************************************************************************)
(* Model of the Cortex autonomous security patcher                         *)
(* (src/cortex/autonomous_patcher.py): the patch policy (_should_patch),   *)
(* the process-wide rate-limited apt refresh gate (ensure_apt_updated),    *)
(* the planner (create_patch_plan) and the executor (apply_patch_plan).    *)
(***************************************************************************)
EXTENDS Integers, Sequences, FiniteSets, TLC

(***************************************************************************)
(* Bounds of the model.                                                    *)
(***************************************************************************)
\* seconds by which one Tick advances the wall clock
TickSeconds == 150
\* number of clock ticks explored
MaxTicks == 4
\* number of top-level calls explored
MaxCalls == 3
\* length of the vulnerability lists given to the planner
MaxVulns == 2
\* number of top-level calls after which no apply_patch_plan call is started
MaxApplyCalls == 2
\* number of SecurityScheduler calls explored
MaxSchedCalls == 2

\* _APT_UPDATE_INTERVAL_SECONDS = 300
APT_UPDATE_INTERVAL_SECONDS == 300

\* Python's None and a present optional value
None == <<>>
Some(x) == <<x>>
Val(o) == o[1]

Threads == {"t1", "t2"}

\* _apt_update_lock = threading.Lock(): Unlocked, or the thread that holds it
Unlocked == "unlocked"

\* the locals of one ensure_apt_updated call; invoked, writes, stamp_in and
\* stamp_out observe the call: external refreshes invoked, assignments to
\* _apt_last_updated, and its value when the lock was taken and released;
\* overlaps observes the callers that were inside ensure_apt_updated when
\* this call was made, refresh the outcome of the call's own "apt-get update"
NoFrame == [force |-> FALSE, now |-> 0, result |-> FALSE, early |-> FALSE,
            invoked |-> 0, writes |-> 0, stamp_in |-> None, stamp_out |-> None,
            overlaps |-> {}, refresh |-> None]

\* cortex.vulnerability_scanner.Severity, as used by severity_order
Severity == {"critical", "high", "medium", "low", "unknown"}

\* class PatchStrategy(Enum)
PatchStrategy == {"automatic", "critical_only", "high_and_above", "manual"}

\* package names used as inputs
Packages == {"openssl", "linux-image-generic"}

\* a Vulnerability, reduced to the two fields the patcher reads
Vulnerability == [package_name : Packages, severity : Severity]

\* the locals of one create_patch_plan call; gate_calls and lookups observe
\* the call: its ensure_apt_updated calls and its candidate-version lookups
NoPlan == [vulns |-> <<>>, to_patch |-> <<>>, order |-> <<>>, idx |-> 1,
           packages_to_update |-> <<>>, requires_reboot |-> FALSE,
           gate_calls |-> 0, lookups |-> <<>>, returned |-> None]

VARIABLES
    strategy,          \* self.strategy
    dry_run,           \* self.dry_run
    whitelist,         \* self.whitelist
    blacklist,         \* self.blacklist
    min_severity,      \* self.min_severity
    patcher_config,    \* ~/.cortex/patcher_config.json, None when absent
    decision,          \* the _should_patch call just made: [v, result], or None
    clock,             \* datetime.now(), in seconds
    apt_update_lock,   \* _apt_update_lock: the thread holding it, or None
    apt_last_updated,  \* _apt_last_updated: a time, or None
    pc,                \* per thread: the position in the running call
    op,                \* per thread: the top-level call it is running, "none" when idle
    frame,             \* per thread: the locals of the running ensure_apt_updated
    plan,              \* per thread: the locals of the running create_patch_plan
    exec,              \* per thread: the locals of the running apply_patch_plan
    history,           \* self.history: the installation records, by install id
    calls,             \* number of top-level calls made so far
    refresh_log,       \* every external "apt-get update" run through the gate, in order
    schedules,         \* SecurityScheduler.schedules: schedule id -> SecuritySchedule
    schedule_file,     \* ~/.cortex/security_schedule.json, None when absent
    sched_call,        \* the SecurityScheduler call just made, as its caller sees it
    config_dir,        \* ~/.cortex as _save_schedules finds it
    conflict_data,     \* the argument of DependencyResolver.resolve
    resolved           \* what the last resolve call did: raised or returned

vars == <<strategy, dry_run, whitelist, blacklist, min_severity, patcher_config,
          decision, clock, apt_update_lock, apt_last_updated, pc, op, frame, plan, exec, history, calls,
          refresh_log, schedules, schedule_file, sched_call, config_dir,
          conflict_data, resolved>>

resolverVars == <<conflict_data, resolved>>
schedVars == <<schedules, schedule_file, sched_call, config_dir>>
patcherVars == <<strategy, dry_run, whitelist, blacklist, min_severity, patcher_config>>
execVars == <<exec, history>>
gateVars == <<clock, apt_update_lock, apt_last_updated, pc, op, frame, plan, calls, refresh_log>>

\* the locals of one apply_patch_plan call: the plan given, patch_id and
\* start_time, install_id, errors, updated_packages, the position in the
\* loop over packages_to_update, the install commands run so far, the
\* PatchResult returned, and whether an exception left the call instead;
\* and, observed from outside: the ids of the history records the call
\* created, the outcomes of its "apt-get update" runs and of its installs,
\* whether its except block ran, and its calls of update_installation
NoExec == [plan |-> [vulnerabilities |-> <<>>, packages_to_update |-> <<>>],
           patch_id |-> 0, start_time |-> 0, install_id |-> None,
           errors |-> <<>>, updated_packages |-> <<>>, idx |-> 1, installs |-> <<>>,
           result |-> None, raised |-> FALSE,
           created |-> <<>>, refreshes |-> <<>>, outcomes |-> <<>>, caught |-> FALSE,
           updates |-> <<>>]

\* no SecurityScheduler call made yet; of a call: its name and arguments, the
\* schedule stored under the id when it was made, the exception that reached
\* the caller, the dictionary run_schedule returned, what delete_schedule
\* returned, the outcomes of the scanner, patcher and _save_schedules calls
\* it made, the times read for last_run and for next_run, and the
\* vulnerabilities its scan reported
NoCall == [op |-> "none", schedule_id |-> "", args |-> None, previous |-> None,
           raised |-> None, results |-> None, deleted |-> None,
           scanner_calls |-> <<>>, patcher_calls |-> <<>>, saves |-> <<>>,
           last_now |-> None, calc_now |-> None, found |-> <<>>]

(***************************************************************************)
(* _should_patch                                                           *)
(***************************************************************************)
\* severity_order.get(s, 0)
severity_order(s) ==
    CASE s = "critical" -> 4
      [] s = "high"     -> 3
      [] s = "medium"   -> 2
      [] s = "low"      -> 1
      [] s = "unknown"  -> 0
      [] OTHER          -> 0

\* variants of ShouldPatch with one plausible slip each
ShouldPatch_WhitelistFirst(v, wl, bl, minsev, strat) ==
    IF v.package_name \in wl THEN TRUE
    ELSE IF v.package_name \in bl THEN FALSE
    ELSE IF severity_order(v.severity) < severity_order(minsev) THEN FALSE
    ELSE IF strat = "critical_only" THEN v.severity = "critical"
    ELSE IF strat = "high_and_above" THEN v.severity \in {"critical", "high"}
    ELSE strat = "automatic"

ShouldPatch_HighOnly(v, wl, bl, minsev, strat) ==
    IF v.package_name \in bl THEN FALSE
    ELSE IF v.package_name \in wl THEN TRUE
    ELSE IF severity_order(v.severity) < severity_order(minsev) THEN FALSE
    ELSE IF strat = "critical_only" THEN v.severity = "critical"
    ELSE IF strat = "high_and_above" THEN v.severity = "high"
    ELSE strat = "automatic"

ShouldPatch_FloorInclusive(v, wl, bl, minsev, strat) ==
    IF v.package_name \in bl THEN FALSE
    ELSE IF v.package_name \in wl THEN TRUE
    ELSE IF severity_order(v.severity) + 1 < severity_order(minsev) THEN FALSE
    ELSE IF strat = "critical_only" THEN v.severity = "critical"
    ELSE IF strat = "high_and_above" THEN v.severity \in {"critical", "high"}
    ELSE strat = "automatic"

ShouldPatch_FloorBeforeWhitelist(v, wl, bl, minsev, strat) ==
    IF v.package_name \in bl THEN FALSE
    ELSE IF severity_order(v.severity) < severity_order(minsev) THEN FALSE
    ELSE IF v.package_name \in wl THEN TRUE
    ELSE IF strat = "critical_only" THEN v.severity = "critical"
    ELSE IF strat = "high_and_above" THEN v.severity \in {"critical", "high"}
    ELSE strat = "automatic"

ShouldPatch(v, wl, bl, minsev, strat) ==
    IF v.package_name \in bl THEN FALSE
    ELSE IF v.package_name \in wl THEN TRUE
    ELSE IF severity_order(v.severity) < severity_order(minsev) THEN FALSE
    ELSE IF strat = "critical_only" THEN v.severity = "critical"
    ELSE IF strat = "high_and_above" THEN v.severity \in {"critical", "high"}
    ELSE IF strat = "automatic" THEN TRUE
    ELSE IF strat = "manual" THEN FALSE
    ELSE FALSE

\* self._should_patch(vulnerability)
should_patch(v) == ShouldPatch(v, whitelist, blacklist, min_severity, strategy)

ShouldPatchCall(v) ==
    /\ decision' = Some([v |-> v, result |-> should_patch(v)])
    /\ UNCHANGED <<resolverVars, schedVars, patcherVars, execVars, gateVars>>

(***************************************************************************)
(* add_to_whitelist / add_to_blacklist / set_min_severity, each followed   *)
(* by _save_config, which swallows a failure to write the file.            *)
(***************************************************************************)
SaveConfig(wl, bl, ms) ==
    \/ patcher_config' = Some([whitelist |-> wl, blacklist |-> bl, min_severity |-> ms])
    \/ UNCHANGED patcher_config

\* variant: whitelisting a package takes it off the blacklist
AddToWhitelist_Unblacklists(p) ==
    /\ whitelist' = whitelist \cup {p}
    /\ blacklist' = blacklist \ {p}
    /\ SaveConfig(whitelist', blacklist', min_severity)
    /\ decision' = None
    /\ UNCHANGED <<resolverVars, schedVars, strategy, dry_run, min_severity, execVars, gateVars>>

AddToWhitelist(p) ==
    /\ whitelist' = whitelist \cup {p}
    /\ SaveConfig(whitelist', blacklist, min_severity)
    /\ decision' = None
    /\ UNCHANGED <<resolverVars, schedVars, strategy, dry_run, blacklist, min_severity, execVars, gateVars>>

AddToBlacklist(p) ==
    /\ blacklist' = blacklist \cup {p}
    /\ SaveConfig(whitelist, blacklist', min_severity)
    /\ decision' = None
    /\ UNCHANGED <<resolverVars, schedVars, strategy, dry_run, whitelist, min_severity, execVars, gateVars>>

SetMinSeverity(s) ==
    /\ min_severity' = s
    /\ SaveConfig(whitelist, blacklist, s)
    /\ decision' = None
    /\ UNCHANGED <<resolverVars, schedVars, strategy, dry_run, whitelist, blacklist, execVars, gateVars>>

(***************************************************************************)
(* Initial state: a patcher constructed with no configuration file.        *)
(***************************************************************************)
Init ==
    /\ strategy \in PatchStrategy
    /\ dry_run = TRUE
    /\ whitelist = {}
    /\ blacklist = {}
    /\ min_severity = "medium"
    /\ patcher_config = None
    /\ decision = None
    /\ clock = 0
    /\ apt_update_lock = Unlocked
    /\ apt_last_updated = None
    /\ pc = [t \in Threads |-> "idle"]
    /\ op = [t \in Threads |-> "none"]
    /\ frame = [t \in Threads |-> NoFrame]
    /\ plan = [t \in Threads |-> NoPlan]
    /\ exec = [t \in Threads |-> NoExec]
    /\ history = <<>>
    /\ calls = 0
    /\ refresh_log = <<>>
    /\ schedules = <<>>
    /\ schedule_file = None
    /\ sched_call = NoCall
    /\ config_dir = "writable"
    /\ conflict_data = None
    /\ resolved = None

NextPolicy ==
    \/ \E p \in Packages : AddToWhitelist(p)
    \/ \E p \in Packages : AddToBlacklist(p)
    \/ \E s \in Severity : SetMinSeverity(s)
    \/ \E v \in Vulnerability : ShouldPatchCall(v)

SpecPolicy == Init /\ [][NextPolicy]_vars

(***************************************************************************)
(* ensure_apt_updated(force): the refresh gate.                            *)
(***************************************************************************)
\* the wall clock advances (datetime.now() is taken to be monotonic)
Tick ==
    /\ clock + TickSeconds <= MaxTicks * TickSeconds
    /\ clock' = clock + TickSeconds
    /\ UNCHANGED <<resolverVars, schedVars, patcherVars, execVars, decision, apt_update_lock, apt_last_updated, pc, op,
                   frame, plan, calls, refresh_log>>

\* where a thread continues when its ensure_apt_updated returns
AfterEnsure(t) == IF op[t] = "ensure" THEN "ensure_ret" ELSE "plan_lookup"

\* the threads that wait for _apt_update_lock or hold it
InsideEnsure == {u \in Threads : pc[u] \in {"ensure_wait", "ensure_check", "ensure_running"}}

\* a caller invokes ensure_apt_updated(force) and waits for the lock
EnsureCall(t, force) ==
    /\ pc[t] = "idle"
    /\ calls < MaxCalls
    /\ calls' = calls + 1
    /\ op' = [op EXCEPT ![t] = "ensure"]
    /\ frame' = [frame EXCEPT ![t] = [NoFrame EXCEPT !.force = force,
                                                      !.overlaps = InsideEnsure \ {t}]]
    /\ pc' = [pc EXCEPT ![t] = "ensure_wait"]
    /\ UNCHANGED <<resolverVars, schedVars, patcherVars, execVars, decision, clock, apt_update_lock, apt_last_updated,
                   plan, refresh_log>>

\* with _apt_update_lock: now = datetime.now()
EnsureAcquire(t) ==
    /\ pc[t] = "ensure_wait"
    /\ apt_update_lock = Unlocked
    /\ apt_update_lock' = t
    /\ frame' = [frame EXCEPT ![t].now = clock, ![t].stamp_in = apt_last_updated]
    /\ pc' = [pc EXCEPT ![t] = "ensure_check"]
    /\ UNCHANGED <<resolverVars, schedVars, patcherVars, execVars, decision, clock, apt_last_updated, op, plan, calls,
                   refresh_log>>

\* variant: the freshness test ignores force
IsFresh_IgnoresForce(force, now, last) ==
    /\ last # None
    /\ now - Val(last) < APT_UPDATE_INTERVAL_SECONDS

\* if not force and _apt_last_updated is not None and elapsed < interval
IsFresh(force, now, last) ==
    /\ ~force
    /\ last # None
    /\ now - Val(last) < APT_UPDATE_INTERVAL_SECONDS

\* variant: a skipping call reports the outcome of the last attempt
FreshResult_LastOutcome ==
    IF refresh_log = <<>> THEN TRUE ELSE refresh_log[Len(refresh_log)].ok

\* return True, when the cache is still fresh
FreshResult == TRUE

\* the freshness test: return True early, or start "apt-get update"
EnsureCheck(t) ==
    /\ pc[t] = "ensure_check"
    /\ IF IsFresh(frame[t].force, frame[t].now, apt_last_updated)
       THEN /\ frame' = [frame EXCEPT ![t].result = FreshResult, ![t].early = TRUE,
                                       ![t].stamp_out = apt_last_updated]
            /\ apt_update_lock' = Unlocked
            /\ pc' = [pc EXCEPT ![t] = AfterEnsure(t)]
       ELSE /\ frame' = [frame EXCEPT ![t].invoked = @ + 1]
            /\ pc' = [pc EXCEPT ![t] = "ensure_running"]
            /\ UNCHANGED apt_update_lock
    /\ UNCHANGED <<resolverVars, schedVars, patcherVars, execVars, decision, clock, apt_last_updated, op, plan, calls,
                   refresh_log>>

\* variant: the timestamp is recorded only when the refresh succeeded
StampAfter_OnlyOnSuccess(ok, now, last) == IF ok THEN Some(now) ELSE last

\* the value of _apt_last_updated after "apt-get update" ended with
\* success = ok: both branches assign now
StampAfter(ok, now, last) == IF ok THEN Some(now) ELSE Some(now)

\* "apt-get update" ends (ok), the timestamp is recorded, the lock released
EnsureFinish(t, ok) ==
    /\ pc[t] = "ensure_running"
    /\ apt_last_updated' = StampAfter(ok, frame[t].now, apt_last_updated)
    /\ frame' = [frame EXCEPT ![t].result = ok,
                               ![t].refresh = Some(ok),
                               ![t].writes = @ + 1,
                               ![t].stamp_out = apt_last_updated']
    /\ refresh_log' = Append(refresh_log, [now |-> frame[t].now,
                                            force |-> frame[t].force, ok |-> ok])
    /\ apt_update_lock' = Unlocked
    /\ pc' = [pc EXCEPT ![t] = AfterEnsure(t)]
    /\ UNCHANGED <<resolverVars, schedVars, patcherVars, execVars, decision, clock, op, plan, calls>>

\* the caller of ensure_apt_updated receives the result
EnsureReturn(t) ==
    /\ pc[t] = "ensure_ret"
    /\ pc' = [pc EXCEPT ![t] = "idle"]
    /\ op' = [op EXCEPT ![t] = "none"]
    /\ frame' = [frame EXCEPT ![t] = NoFrame]
    /\ UNCHANGED <<resolverVars, schedVars, patcherVars, execVars, decision, clock, apt_update_lock, apt_last_updated,
                   plan, calls, refresh_log>>

InitGate ==
    /\ Init
    /\ strategy = "critical_only"

NextGate ==
    \/ Tick
    \/ \E t \in Threads, force \in BOOLEAN : EnsureCall(t, force)
    \/ \E t \in Threads : EnsureAcquire(t)
    \/ \E t \in Threads : EnsureCheck(t)
    \/ \E t \in Threads, ok \in BOOLEAN : EnsureFinish(t, ok)
    \/ \E t \in Threads : EnsureReturn(t)

SpecGate == InitGate /\ [][NextGate]_vars

(***************************************************************************)
(* Text helpers: Python's in, str.split and str.strip on strings.          *)
(***************************************************************************)
\* needle in hay
Contains(needle, hay) ==
    \E i \in 1..(Len(hay) - Len(needle) + 1) :
        SubSeq(hay, i, i + Len(needle) - 1) = needle

\* s.split(sep), for a separator of one character
RECURSIVE Split(_, _)
Split(s, sep) ==
    IF \E i \in 1..Len(s) : SubSeq(s, i, i) = sep
    THEN LET i == CHOOSE k \in 1..Len(s) :
                    /\ SubSeq(s, k, k) = sep
                    /\ \A j \in 1..(k - 1) : SubSeq(s, j, j) # sep
         IN <<SubSeq(s, 1, i - 1)>> \o Split(SubSeq(s, i + 1, Len(s)), sep)
    ELSE <<s>>

IsSpace(c) == c \in {" ", "\t", "\n", "\r"}

\* s.strip()
RECURSIVE Strip(_)
Strip(s) ==
    IF s = "" THEN s
    ELSE IF IsSpace(SubSeq(s, 1, 1)) THEN Strip(SubSeq(s, 2, Len(s)))
    ELSE IF IsSpace(SubSeq(s, Len(s), Len(s))) THEN Strip(SubSeq(s, 1, Len(s) - 1))
    ELSE s

(***************************************************************************)
(* _check_package_update_available                                         *)
(***************************************************************************)
\* the versions the package index may report as candidates; one carries an
\* epoch, as Debian versions may ("1:2.0")
CandidateVersions == {"3.0.2-1", "1:2.0"}

\* what "apt-cache policy <package>" prints for a package with the given
\* candidate field
PolicyText(package, candidate) ==
    package \o ":\n  Installed: 1.0\n  Candidate: " \o candidate \o "\n  Version table:\n"

\* the outcomes of _run_command(["apt-cache", "policy", package]): the command
\* fails or times out, prints nothing (unknown package), reports no candidate,
\* or reports a candidate version. candidate records the version the index
\* reported, None when it reported none.
AptCachePolicy(package) ==
    {[success |-> FALSE, stdout |-> "", candidate |-> None],
     [success |-> TRUE, stdout |-> "", candidate |-> None],
     [success |-> TRUE, stdout |-> PolicyText(package, "(none)"), candidate |-> None]}
    \cup {[success |-> TRUE, stdout |-> PolicyText(package, c), candidate |-> Some(c)] :
             c \in CandidateVersions}

\* the version a line yields, None when it yields none
LineVersion(line) ==
    IF Contains("Candidate:", line)
    THEN LET parts == Split(line, ":")
         IN IF Len(parts) >= 2
            THEN LET version == Strip(parts[2])
                 IN IF version # "" /\ version # "(none)" THEN Some(version) ELSE None
            ELSE None
    ELSE None

\* the first version found in the lines from index i on
RECURSIVE FirstVersion(_, _)
FirstVersion(lines, i) ==
    IF i > Len(lines) THEN None
    ELSE IF LineVersion(lines[i]) # None THEN LineVersion(lines[i])
    ELSE FirstVersion(lines, i + 1)

\* _check_package_update_available, on the outcome of the command
CheckPackageUpdateAvailable(success, stdout) ==
    IF success THEN FirstVersion(Split(stdout, "\n"), 1) ELSE None

(***************************************************************************)
(* create_patch_plan                                                       *)
(***************************************************************************)
\* package names and vulnerabilities given to the planner
PlanPackages == {"openssl", "linux-image-generic", "linux-headers-generic"}
PlanSeverities == {"high", "low"}
PlanVulnerability == [package_name : PlanPackages, severity : PlanSeverities]

\* the vulnerability lists given to the planner
PlanInputs == UNION {[1..n -> PlanVulnerability] : n \in 0..MaxVulns}

\* to_patch = [v for v in vulnerabilities if self._should_patch(v)]
ToPatch(vulns) == SelectSeq(vulns, LAMBDA v : should_patch(v))

\* variant: one entry per vulnerability, not per package
PackageOrder_PerVulnerability(vs) == [i \in 1..Len(vs) |-> vs[i].package_name]

\* the keys of package_vulns in insertion order: the distinct package names
\* of to_patch, in order of first occurrence
RECURSIVE PackageOrder(_)
PackageOrder(vs) ==
    IF vs = <<>> THEN <<>>
    ELSE LET init == PackageOrder(SubSeq(vs, 1, Len(vs) - 1))
             name == vs[Len(vs)].package_name
         IN IF \E i \in 1..Len(init) : init[i] = name THEN init ELSE Append(init, name)

\* variant: only kernel images count
IsKernelPackage_ImageOnly(name) == Contains("linux-image", name)

\* "linux-image" in package_name or "linux-headers" in package_name
IsKernelPackage(name) == Contains("linux-image", name) \/ Contains("linux-headers", name)

\* variant: the emptiness test reads the list given, not the filtered one
NothingToPatch_OnInput(vulns, to_patch) == vulns = <<>>

\* if not to_patch
NothingToPatch(vulns, to_patch) == to_patch = <<>>

\* the plan returned for an empty to_patch
EmptyPlan ==
    [vulnerabilities |-> <<>>, packages_to_update |-> <<>>,
     estimated_duration_minutes |-> 0, requires_reboot |-> FALSE,
     rollback_available |-> TRUE]

\* requires_reboot after a package has been looked up
RebootAfter(reboot, name, update_version) ==
    IF update_version # None /\ IsKernelPackage(name) THEN TRUE ELSE reboot

\* create_patch_plan(vulnerabilities) up to the call of ensure_apt_updated;
\* vulns is the list passed or, when None is passed, what the scanner found
PlanCall(t, vulns) ==
    /\ pc[t] = "idle"
    /\ op' = [op EXCEPT ![t] = "plan"]
    /\ LET to_patch == ToPatch(vulns)
           base == [NoPlan EXCEPT !.vulns = vulns, !.to_patch = to_patch]
       IN IF NothingToPatch(vulns, to_patch)
          THEN /\ plan' = [plan EXCEPT ![t] = [base EXCEPT !.returned = Some(EmptyPlan)]]
               /\ pc' = [pc EXCEPT ![t] = "plan_ret"]
               /\ UNCHANGED frame
          ELSE /\ plan' = [plan EXCEPT ![t] = [base EXCEPT !.order = PackageOrder(to_patch),
                                                            !.gate_calls = @ + 1]]
               /\ frame' = [frame EXCEPT ![t] = NoFrame]
               /\ pc' = [pc EXCEPT ![t] = "ensure_wait"]
    /\ UNCHANGED <<resolverVars, schedVars, patcherVars, execVars, decision, clock, apt_update_lock, apt_last_updated,
                   calls, refresh_log>>

\* one turn of the loop over package_vulns: the lookup of the next package
PlanLookup(t) ==
    /\ pc[t] = "plan_lookup"
    /\ plan[t].idx <= Len(plan[t].order)
    /\ \E out \in AptCachePolicy(plan[t].order[plan[t].idx]) :
       LET name == plan[t].order[plan[t].idx]
           update_version == CheckPackageUpdateAvailable(out.success, out.stdout)
       IN plan' = [plan EXCEPT
               ![t].idx = @ + 1,
               ![t].lookups = Append(@, [package |-> name, candidate |-> out.candidate]),
               ![t].packages_to_update =
                   IF update_version # None
                   THEN Append(@, [package |-> name, version |-> Val(update_version)])
                   ELSE @,
               ![t].requires_reboot = RebootAfter(@, name, update_version)]
    /\ UNCHANGED <<resolverVars, schedVars, patcherVars, execVars, decision, clock, apt_update_lock, apt_last_updated,
                   pc, op, frame, calls, refresh_log>>

\* after the loop: the plan is built and returned
PlanFinish(t) ==
    /\ pc[t] = "plan_lookup"
    /\ plan[t].idx > Len(plan[t].order)
    /\ plan' = [plan EXCEPT ![t].returned = Some(
           [vulnerabilities |-> plan[t].to_patch,
            packages_to_update |-> plan[t].packages_to_update,
            estimated_duration_minutes |-> Len(plan[t].packages_to_update) * 1,
            requires_reboot |-> plan[t].requires_reboot,
            rollback_available |-> TRUE])]
    /\ pc' = [pc EXCEPT ![t] = "plan_ret"]
    /\ UNCHANGED <<resolverVars, schedVars, patcherVars, execVars, decision, clock, apt_update_lock, apt_last_updated,
                   op, frame, calls, refresh_log>>

\* the caller of create_patch_plan receives the plan
PlanReturn(t) ==
    /\ pc[t] = "plan_ret"
    /\ pc' = [pc EXCEPT ![t] = "idle"]
    /\ op' = [op EXCEPT ![t] = "none"]
    /\ plan' = [plan EXCEPT ![t] = NoPlan]
    /\ frame' = [frame EXCEPT ![t] = NoFrame]
    /\ UNCHANGED <<resolverVars, schedVars, patcherVars, execVars, decision, clock, apt_update_lock, apt_last_updated,
                   calls, refresh_log>>

\* the filter settings the planner is run under
PlanWhitelists == {{}, {"linux-headers-generic"}}
PlanBlacklists == {{}, {"openssl"}}

\* a patcher whose filters were set before planning starts
InitPlan ==
    /\ strategy \in PatchStrategy
    /\ dry_run = TRUE
    /\ whitelist \in PlanWhitelists
    /\ blacklist \in PlanBlacklists
    /\ min_severity = "medium"
    /\ patcher_config = None
    /\ decision = None
    /\ clock = 0
    /\ apt_update_lock = Unlocked
    /\ apt_last_updated = None
    /\ pc = [t \in Threads |-> "idle"]
    /\ op = [t \in Threads |-> "none"]
    /\ frame = [t \in Threads |-> NoFrame]
    /\ plan = [t \in Threads |-> NoPlan]
    /\ exec = [t \in Threads |-> NoExec]
    /\ history = <<>>
    /\ calls = 0
    /\ refresh_log = <<>>
    /\ schedules = <<>>
    /\ schedule_file = None
    /\ sched_call = NoCall
    /\ config_dir = "writable"
    /\ conflict_data = None
    /\ resolved = None

\* the thread that plans
Planner == "t1"

NextPlan ==
    \/ \E vulns \in PlanInputs : PlanCall(Planner, vulns)
    \/ EnsureAcquire(Planner)
    \/ EnsureCheck(Planner)
    \/ \E ok \in BOOLEAN : EnsureFinish(Planner, ok)
    \/ PlanLookup(Planner)
    \/ PlanFinish(Planner)
    \/ PlanReturn(Planner)

SpecPlan == InitPlan /\ [][NextPlan]_vars

(***************************************************************************)
(* One caller that sets the filters of its patcher, asks _should_patch and *)
(* plans, one call after the other.                                        *)
(***************************************************************************)
\* the severities the caller sets as floor
FilterFloors == {"low", "critical"}

\* the vulnerabilities the caller asks about and plans for
FilterVulnerabilities ==
    {[package_name |-> "openssl", severity |-> "critical"],
     [package_name |-> "linux-image-generic", severity |-> "low"]}

FilterPlanInputs ==
    {<<[package_name |-> "openssl", severity |-> "critical"]>>,
     <<[package_name |-> "linux-image-generic", severity |-> "low"],
       [package_name |-> "openssl", severity |-> "critical"]>>}

\* the caller is between two calls
Idle == pc[Planner] = "idle"

NextFilters ==
    \/ Idle /\ \E p \in Packages : AddToWhitelist(p)
    \/ Idle /\ \E p \in Packages : AddToBlacklist(p)
    \/ Idle /\ \E s \in FilterFloors : SetMinSeverity(s)
    \/ Idle /\ \E v \in FilterVulnerabilities : ShouldPatchCall(v)
    \/ \E vulns \in FilterPlanInputs : PlanCall(Planner, vulns)
    \/ EnsureAcquire(Planner)
    \/ EnsureCheck(Planner)
    \/ \E ok \in BOOLEAN : EnsureFinish(Planner, ok)
    \/ PlanLookup(Planner)
    \/ PlanFinish(Planner)
    \/ PlanReturn(Planner)

SpecFilters == Init /\ [][NextFilters]_vars

(***************************************************************************)
(* apply_patch_plan                                                        *)
(***************************************************************************)
\* list(plan.packages_to_update.keys())
Keys(packages_to_update) ==
    [i \in 1..Len(packages_to_update) |-> packages_to_update[i].package]

\* the argument of "apt-get install -y": pinned when a version is present
InstallTarget(name, target_version) ==
    IF target_version # "" THEN name \o "=" \o target_version ELSE name

\* PatchResult(...)
PatchResult(e, patched, updated, success, errors, rollback_id, duration) ==
    [patch_id |-> e.patch_id, timestamp |-> e.start_time,
     vulnerabilities_patched |-> patched, packages_updated |-> updated,
     success |-> success, errors |-> errors, rollback_id |-> rollback_id,
     duration_seconds |-> duration]

\* the result for a plan with empty packages_to_update
TrivialResult_CountsVulnerabilities(e) ==
    PatchResult(e, Len(e.plan.vulnerabilities), <<>>, TRUE, <<>>, None, None)

TrivialResult(e) == PatchResult(e, 0, <<>>, TRUE, <<>>, None, None)

\* the result of a dry run
DryRunResult_CountsPackages(e) ==
    PatchResult(e, Len(e.plan.packages_to_update), Keys(e.plan.packages_to_update),
                TRUE, <<>>, None, None)

DryRunResult(e) ==
    PatchResult(e, Len(e.plan.vulnerabilities), Keys(e.plan.packages_to_update),
                TRUE, <<>>, None, None)

\* updated_packages after the install of one package
UpdatedAfter_Attempted(updated, name, ok) == Append(updated, name)

UpdatedAfter(updated, name, ok) == IF ok THEN Append(updated, name) ELSE updated

\* errors after the install of one package
ErrorsAfter(errors, name, ok) ==
    IF ok THEN errors ELSE Append(errors, "Failed to update " \o name)

\* where the loop over packages_to_update continues after install idx of n
NextAfterInstall_StopOnFailure(idx, n, ok) ==
    IF ok /\ idx < n THEN "apply_install" ELSE "apply_update"

NextAfterInstall(idx, n, ok) == IF idx < n THEN "apply_install" ELSE "apply_update"

\* variant: a failed refresh is logged and not collected
RefreshErrors_Ignored(errors, ok) == errors

\* errors after "apt-get update": if not success, errors.append(...)
RefreshErrors(errors, ok) ==
    IF ok THEN errors ELSE Append(errors, "Failed to update package list")

\* variant: vulnerabilities_patched counts the packages updated
FinalResult_CountsUpdated(e, now) ==
    PatchResult(e, Len(e.updated_packages), e.updated_packages,
                e.errors = <<>>, e.errors, e.install_id, Some(now - e.start_time))

\* the result at the end of the try block
FinalResult(e, now) ==
    PatchResult(e, Len(e.plan.vulnerabilities), e.updated_packages,
                e.errors = <<>>, e.errors, e.install_id, Some(now - e.start_time))

\* the result built by the except block
FailedResult_NoRollback(e, errors) == PatchResult(e, 0, <<>>, FALSE, errors, None, None)

FailedResult(e, errors) == PatchResult(e, 0, <<>>, FALSE, errors, e.install_id, None)

\* apply_patch_plan(plan) up to the first external call: the trivial result
\* for empty packages_to_update, the dry-run result, or the start of a real run
ApplyCall(t, p) ==
    /\ pc[t] = "idle"
    /\ calls < MaxApplyCalls
    /\ calls' = calls + 1
    /\ op' = [op EXCEPT ![t] = "apply"]
    /\ LET e == [NoExec EXCEPT !.plan = p, !.patch_id = clock, !.start_time = clock]
       IN IF p.packages_to_update = <<>>
          THEN /\ exec' = [exec EXCEPT ![t] = [e EXCEPT !.result =
                          Some(TrivialResult(e))]]
               /\ pc' = [pc EXCEPT ![t] = "apply_ret"]
          ELSE IF dry_run
          THEN /\ exec' = [exec EXCEPT ![t] = [e EXCEPT !.result =
                          Some(DryRunResult(e))]]
               /\ pc' = [pc EXCEPT ![t] = "apply_ret"]
          ELSE /\ exec' = [exec EXCEPT ![t] = e]
               /\ pc' = [pc EXCEPT ![t] = "apply_record"]
    /\ UNCHANGED <<resolverVars, schedVars, patcherVars, decision, clock, apt_update_lock, apt_last_updated,
                   frame, plan, history, refresh_log>>

\* variant: a real execution waits until no other one is under way
MayExecute_Exclusive(t) ==
    \A u \in Threads \ {t} : pc[u] \notin {"apply_refresh", "apply_install", "apply_update"}

\* the real-execution path takes no lock: a call goes on whatever the other
\* callers are doing
MayExecute(t) == TRUE

\* install_id = self.history.record_installation(...), outside the try block:
\* the record is created and "apt-get update" started, or the call raises
ApplyRecord(t) ==
    /\ pc[t] = "apply_record"
    /\ MayExecute(t)
    /\ \/ /\ history' = Append(history, [packages |-> Keys(exec[t].plan.packages_to_update),
                                          status |-> "in_progress", error |-> <<>>])
          /\ exec' = [exec EXCEPT ![t].install_id = Some(Len(history) + 1),
                                   ![t].created = Append(@, Len(history) + 1)]
          /\ pc' = [pc EXCEPT ![t] = "apply_refresh"]
       \/ /\ exec' = [exec EXCEPT ![t].raised = TRUE]
          /\ pc' = [pc EXCEPT ![t] = "apply_ret"]
          /\ UNCHANGED history
    /\ UNCHANGED <<resolverVars, schedVars, patcherVars, decision, clock, apt_update_lock, apt_last_updated,
                   op, frame, plan, calls, refresh_log>>

\* self._run_command(["apt-get", "update", "-qq"]) ends with success = ok; the
\* install of the first package starts
ApplyRefreshDone(t, ok) ==
    /\ pc[t] = "apply_refresh"
    /\ exec' = [exec EXCEPT ![t].errors = RefreshErrors(@, ok),
                             ![t].refreshes = Append(@, ok)]
    /\ pc' = [pc EXCEPT ![t] = "apply_install"]
    /\ UNCHANGED <<resolverVars, schedVars, patcherVars, decision, clock, apt_update_lock, apt_last_updated,
                   op, frame, plan, history, calls, refresh_log>>

\* the install of package idx ends with success = ok; the next one starts
ApplyInstallDone(t, ok) ==
    /\ pc[t] = "apply_install"
    /\ LET item == exec[t].plan.packages_to_update[exec[t].idx]
       IN exec' = [exec EXCEPT
               ![t].installs = Append(@, InstallTarget(item.package, item.version)),
               ![t].outcomes = Append(@, ok),
               ![t].updated_packages = UpdatedAfter(@, item.package, ok),
               ![t].errors = ErrorsAfter(@, item.package, ok),
               ![t].idx = @ + 1]
    /\ pc' = [pc EXCEPT ![t] = NextAfterInstall(exec[t].idx,
                                    Len(exec[t].plan.packages_to_update), ok)]
    /\ UNCHANGED <<resolverVars, schedVars, patcherVars, decision, clock, apt_update_lock, apt_last_updated,
                   op, frame, plan, history, calls, refresh_log>>

\* InstallationStatus.FAILED if errors else InstallationStatus.SUCCESS
FinalStatus(errors) == IF errors # <<>> THEN "failed" ELSE "success"

\* after the loop: the history record is updated and the result returned; when
\* update_installation raises, the except block records one more error and
\* marks the record failed, which may raise again
ApplyUpdate(t) ==
    /\ pc[t] = "apply_update"
    /\ LET e == exec[t]
           id == Val(e.install_id)
           failed == Append(e.errors, "Patch operation failed")
           first(raised) == [status |-> FinalStatus(e.errors), error |-> e.errors,
                             raised |-> raised]
           second(raised) == [status |-> "failed", error |-> <<"Patch operation failed">>,
                              raised |-> raised]
       IN \/ /\ history' = [history EXCEPT
                     ![id].status = FinalStatus(e.errors),
                     ![id].error = e.errors]
             /\ exec' = [exec EXCEPT ![t].result = Some(FinalResult(e, clock)),
                                      ![t].updates = <<first(FALSE)>>]
          \/ /\ history' = [history EXCEPT ![id].status = "failed",
                                            ![id].error = <<"Patch operation failed">>]
             /\ exec' = [exec EXCEPT ![t].errors = failed, ![t].caught = TRUE,
                                      ![t].result = Some(FailedResult(e, failed)),
                                      ![t].updates = <<first(TRUE), second(FALSE)>>]
          \/ /\ exec' = [exec EXCEPT ![t].errors = failed, ![t].caught = TRUE,
                                      ![t].raised = TRUE,
                                      ![t].updates = <<first(TRUE), second(TRUE)>>]
             /\ UNCHANGED history
    /\ pc' = [pc EXCEPT ![t] = "apply_ret"]
    /\ UNCHANGED <<resolverVars, schedVars, patcherVars, decision, clock, apt_update_lock, apt_last_updated,
                   op, frame, plan, calls, refresh_log>>

\* the caller of apply_patch_plan receives the result or the exception
ApplyReturn(t) ==
    /\ pc[t] = "apply_ret"
    /\ pc' = [pc EXCEPT ![t] = "idle"]
    /\ op' = [op EXCEPT ![t] = "none"]
    /\ exec' = [exec EXCEPT ![t] = NoExec]
    /\ UNCHANGED <<resolverVars, schedVars, patcherVars, decision, clock, apt_update_lock, apt_last_updated,
                   frame, plan, history, calls, refresh_log>>

\* the plans given to apply_patch_plan
ApplyPlans ==
    LET v == [package_name |-> "openssl", severity |-> "high"]
        k == [package_name |-> "linux-image-generic", severity |-> "high"]
    IN {[vulnerabilities |-> <<v>>, packages_to_update |-> <<>>],
        [vulnerabilities |-> <<v>>,
         packages_to_update |-> <<[package |-> "openssl", version |-> "3.0.2-1"]>>],
        [vulnerabilities |-> <<v, k>>,
         packages_to_update |-> <<[package |-> "openssl", version |-> "3.0.2-1"]>>],
        [vulnerabilities |-> <<v, v, k>>,
         packages_to_update |-> <<[package |-> "openssl", version |-> "3.0.2-1"],
                                  [package |-> "linux-image-generic", version |-> ""]>>]}

\* a patcher constructed with dry_run True or False, no configuration file
InitExec ==
    /\ strategy = "critical_only"
    /\ dry_run \in BOOLEAN
    /\ whitelist = {}
    /\ blacklist = {}
    /\ min_severity = "medium"
    /\ patcher_config = None
    /\ decision = None
    /\ clock = 0
    /\ apt_update_lock = Unlocked
    /\ apt_last_updated = None
    /\ pc = [t \in Threads |-> "idle"]
    /\ op = [t \in Threads |-> "none"]
    /\ frame = [t \in Threads |-> NoFrame]
    /\ plan = [t \in Threads |-> NoPlan]
    /\ exec = [t \in Threads |-> NoExec]
    /\ history = <<>>
    /\ calls = 0
    /\ refresh_log = <<>>
    /\ schedules = <<>>
    /\ schedule_file = None
    /\ sched_call = NoCall
    /\ config_dir = "writable"
    /\ conflict_data = None
    /\ resolved = None

\* concurrent callers of ensure_apt_updated and apply_patch_plan
NextExec ==
    \/ \E t \in Threads, force \in BOOLEAN : EnsureCall(t, force)
    \/ \E t \in Threads : EnsureAcquire(t)
    \/ \E t \in Threads : EnsureCheck(t)
    \/ \E t \in Threads, ok \in BOOLEAN : EnsureFinish(t, ok)
    \/ \E t \in Threads : EnsureReturn(t)
    \/ \E t \in Threads, p \in ApplyPlans : ApplyCall(t, p)
    \/ \E t \in Threads : ApplyRecord(t)
    \/ \E t \in Threads, ok \in BOOLEAN : ApplyRefreshDone(t, ok)
    \/ \E t \in Threads, ok \in BOOLEAN : ApplyInstallDone(t, ok)
    \/ \E t \in Threads : ApplyUpdate(t)
    \/ \E t \in Threads : ApplyReturn(t)

SpecExec == InitExec /\ [][NextExec]_vars

(***************************************************************************)
(* SecurityScheduler                                                       *)
(***************************************************************************)
\* class ScheduleFrequency(Enum) and the value of each member
ScheduleFrequency == {"DAILY", "WEEKLY", "MONTHLY", "CUSTOM"}

FrequencyValue(f) ==
    CASE f = "DAILY" -> "daily"
      [] f = "WEEKLY" -> "weekly"
      [] f = "MONTHLY" -> "monthly"
      [] f = "CUSTOM" -> "custom"

\* timedelta(days=..., weeks=...), in seconds
SecondsPerDay == 86400
\* variant: a week counted as one day
TimeDelta_WeekAsDay(days, weeks) == (days + weeks) * SecondsPerDay

TimeDelta(days, weeks) == (days + 7 * weeks) * SecondsPerDay

\* datetime.isoformat(): the date and the time of day, joined by "T"
IsoFormat(dt) == ToString(dt \div SecondsPerDay) \o "T" \o ToString(dt % SecondsPerDay)

\* _calculate_next_run(frequency, custom_cron), with now the time it reads
CalculateNextRun_CalendarMonth(frequency, custom_cron, now) ==
    IF frequency = "DAILY" THEN Some(now + TimeDelta(1, 0))
    ELSE IF frequency = "WEEKLY" THEN Some(now + TimeDelta(0, 1))
    ELSE IF frequency = "MONTHLY" THEN Some(now + TimeDelta(31, 0))
    ELSE None

CalculateNextRun(frequency, custom_cron, now) ==
    IF frequency = "DAILY" THEN Some(now + TimeDelta(1, 0))
    ELSE IF frequency = "WEEKLY" THEN Some(now + TimeDelta(0, 1))
    ELSE IF frequency = "MONTHLY" THEN Some(now + TimeDelta(30, 0))
    ELSE None

\* next_run.isoformat() if next_run else None
IsoOrNone(next_run) == IF next_run # None THEN Some(IsoFormat(Val(next_run))) ELSE None

\* SecuritySchedule(...) as create_schedule builds it: last_run is left unset
SecuritySchedule(schedule_id, a, next_run) ==
    [schedule_id |-> schedule_id, frequency |-> a.frequency,
     scan_enabled |-> a.scan_enabled, patch_enabled |-> a.patch_enabled,
     patch_strategy |-> a.patch_strategy, dry_run |-> a.dry_run,
     last_run |-> None, next_run |-> next_run, custom_cron |-> a.custom_cron]

\* self.schedules[schedule_id] = schedule
StoreSchedule_KeepLastRun(s, schedule_id, schedule) ==
    [i \in DOMAIN s \cup {schedule_id} |->
        IF i # schedule_id THEN s[i]
        ELSE IF schedule_id \in DOMAIN s
             THEN [schedule EXCEPT !.last_run = s[schedule_id].last_run]
             ELSE schedule]

StoreSchedule(s, schedule_id, schedule) ==
    [i \in DOMAIN s \cup {schedule_id} |-> IF i = schedule_id THEN schedule ELSE s[i]]

\* the document _save_schedules writes, by schedule id
Document_WithoutLastRun(s) ==
    [i \in DOMAIN s |->
        [schedule_id |-> s[i].schedule_id, frequency |-> FrequencyValue(s[i].frequency),
         scan_enabled |-> s[i].scan_enabled, patch_enabled |-> s[i].patch_enabled,
         patch_strategy |-> s[i].patch_strategy, dry_run |-> s[i].dry_run,
         last_run |-> None, next_run |-> s[i].next_run,
         custom_cron |-> s[i].custom_cron]]

Document(s) ==
    [i \in DOMAIN s |->
        [schedule_id |-> s[i].schedule_id, frequency |-> FrequencyValue(s[i].frequency),
         scan_enabled |-> s[i].scan_enabled, patch_enabled |-> s[i].patch_enabled,
         patch_strategy |-> s[i].patch_strategy, dry_run |-> s[i].dry_run,
         last_run |-> s[i].last_run, next_run |-> s[i].next_run,
         custom_cron |-> s[i].custom_cron]]

\* ~/.cortex is writable; or it is read-only, so that the write fails; or it
\* cannot be created, so that the mkdir fails
ConfigDirs == {"writable", "read_only", "blocked"}

\* _save_schedules(): the file is written; or the write fails, which is
\* logged and swallowed; or the mkdir before the try block raises
SaveSchedules(dir) ==
    CASE dir = "writable" -> "written"
      [] dir = "read_only" -> "failed"
      [] dir = "blocked" -> "raised"

FileAfterSave(file, s, outcome) == IF outcome = "written" THEN Some(Document(s)) ELSE file

\* the schedule ids and the arguments given to create_schedule
ScheduleIds == {"nightly", "monthly"}

ScheduleArgs ==
    {[frequency |-> "DAILY", scan_enabled |-> TRUE, patch_enabled |-> TRUE,
      patch_strategy |-> "critical_only", dry_run |-> TRUE, custom_cron |-> None],
     [frequency |-> "WEEKLY", scan_enabled |-> TRUE, patch_enabled |-> FALSE,
      patch_strategy |-> "critical_only", dry_run |-> TRUE, custom_cron |-> None],
     [frequency |-> "MONTHLY", scan_enabled |-> FALSE, patch_enabled |-> TRUE,
      patch_strategy |-> "high_and_above", dry_run |-> FALSE, custom_cron |-> None],
     [frequency |-> "CUSTOM", scan_enabled |-> TRUE, patch_enabled |-> TRUE,
      patch_strategy |-> "automatic", dry_run |-> FALSE,
      custom_cron |-> Some("0 3 * * *")]}

\* create_schedule(schedule_id, frequency, ...)
CreateSchedule(schedule_id, a) ==
    /\ calls < MaxSchedCalls
    /\ calls' = calls + 1
    /\ LET save == SaveSchedules(config_dir)
           next_run == CalculateNextRun(a.frequency, a.custom_cron, clock)
           schedule == SecuritySchedule(schedule_id, a, IsoOrNone(next_run))
       IN /\ schedules' = StoreSchedule(schedules, schedule_id, schedule)
          /\ schedule_file' = FileAfterSave(schedule_file, schedules', save)
          /\ sched_call' = [NoCall EXCEPT
                !.op = "create_schedule", !.schedule_id = schedule_id, !.args = Some(a),
                !.previous = IF schedule_id \in DOMAIN schedules
                             THEN Some(schedules[schedule_id]) ELSE None,
                !.raised = IF save = "raised" THEN Some("OSError") ELSE None,
                !.saves = <<save>>, !.calc_now = Some(clock)]
    /\ UNCHANGED <<patcherVars, execVars, decision, clock, apt_update_lock,
                   apt_last_updated, pc, op, frame, plan, refresh_log, config_dir,
                   resolverVars>>

\* what scanner.scan_all_packages() yields: an exception (None) or a scan
\* result with its vulnerabilities
ScanOutcomes ==
    {None,
     Some(<<>>),
     Some(<<[package_name |-> "openssl", severity |-> "low"]>>),
     Some(<<[package_name |-> "openssl", severity |-> "critical"],
            [package_name |-> "linux-image-generic", severity |-> "medium"]>>)}

\* variant: the vulnerabilities at or above the default MEDIUM floor
CriticalOrHigh_MediumToo(vulnerabilities) ==
    SelectSeq(vulnerabilities, LAMBDA v : v.severity \in {"critical", "high", "medium"})

\* to_patch: the scanned vulnerabilities of severity critical or high
CriticalOrHigh(vulnerabilities) ==
    SelectSeq(vulnerabilities, LAMBDA v : v.severity \in {"critical", "high"})

\* how many of the vulnerabilities have the severity
CountOf(vulnerabilities, severity) ==
    Cardinality({i \in DOMAIN vulnerabilities : vulnerabilities[i].severity = severity})

\* results["scan_result"]
ScanSummary(vulnerabilities) ==
    [vulnerabilities_found |-> Len(vulnerabilities),
     critical_count |-> CountOf(vulnerabilities, "critical"),
     high_count |-> CountOf(vulnerabilities, "high"),
     medium_count |-> CountOf(vulnerabilities, "medium"),
     low_count |-> CountOf(vulnerabilities, "low")]

\* what AutonomousPatcher(...).patch_vulnerabilities(to_patch) yields: an
\* exception (None), the trivial result of an empty plan, a result with
\* every package updated, or a result with a failed install
PatchOutcomes(to_patch) ==
    {None,
     Some([packages_updated |-> <<>>, vulnerabilities_patched |-> 0,
           success |-> TRUE, errors |-> <<>>])}
    \cup IF to_patch = <<>> THEN {}
         ELSE {Some([packages_updated |-> <<to_patch[1].package_name>>,
                     vulnerabilities_patched |-> Len(to_patch),
                     success |-> TRUE, errors |-> <<>>]),
               Some([packages_updated |-> <<>>,
                     vulnerabilities_patched |-> Len(to_patch), success |-> FALSE,
                     errors |-> <<"Failed to update " \o to_patch[1].package_name>>])}

\* results["patch_result"]
PatchSummary(patch_result) ==
    [packages_updated |-> Len(patch_result.packages_updated),
     vulnerabilities_patched |-> patch_result.vulnerabilities_patched,
     success |-> patch_result.success, errors |-> patch_result.errors]

\* raise ValueError(f"Schedule {schedule_id} not found")
NotFound_Swallowed(schedule_id) == None

NotFound(schedule_id) == Some("ValueError")

\* whether control reaches the "Update schedule" step of the try block
ReachesUpdate_Always(scan_raised, patch_raised) == TRUE

ReachesUpdate(scan_raised, patch_raised) == ~scan_raised /\ ~patch_raised

\* the results dictionary after the except block
AfterExcept(results) ==
    [results EXCEPT !.success = FALSE,
                    !.errors = Append(@, "Schedule execution failed")]

\* run_schedule(schedule_id): scan is the outcome of the scan, patch the
\* outcome of the patch, gap the time that passes between the reading of
\* last_run and the reading of next_run
RunSchedule(schedule_id, scan, patch, gap) ==
    /\ calls < MaxSchedCalls
    /\ calls' = calls + 1
    /\ clock + gap * TickSeconds <= MaxTicks * TickSeconds
    /\ IF schedule_id \notin DOMAIN schedules
       THEN /\ sched_call' = [NoCall EXCEPT !.op = "run_schedule",
                                            !.schedule_id = schedule_id,
                                            !.raised = NotFound(schedule_id)]
            /\ UNCHANGED <<schedules, schedule_file, clock>>
       ELSE LET schedule == schedules[schedule_id]
                save == SaveSchedules(config_dir)
                scanned == schedule.scan_enabled
                scan_raised == scanned /\ scan = None
                found == IF scanned /\ ~scan_raised THEN Val(scan) ELSE <<>>
                patching == scanned /\ ~scan_raised /\ schedule.patch_enabled
                                /\ Len(found) > 0
                to_patch == CriticalOrHigh(found)
                patch_raised == patching /\ patch = None
                patched == patching /\ ~patch_raised
                reached == ReachesUpdate(scan_raised, patch_raised)
                results0 == [schedule_id |-> schedule_id, timestamp |-> IsoFormat(clock),
                             scan_result |-> None, patch_result |-> None,
                             success |-> TRUE, errors |-> <<>>]
                results1 == IF scanned /\ ~scan_raised
                            THEN [results0 EXCEPT !.scan_result = Some(ScanSummary(found))]
                            ELSE results0
                results2 == IF patched
                            THEN [results1 EXCEPT
                                    !.patch_result = Some(PatchSummary(Val(patch))),
                                    !.success = Val(patch).success,
                                    !.errors = @ \o Val(patch).errors]
                            ELSE results1
                later == clock + gap * TickSeconds
                next_run == IF CalculateNextRun(schedule.frequency, schedule.custom_cron,
                                                clock) # None
                            THEN IsoOrNone(CalculateNextRun(schedule.frequency,
                                                            schedule.custom_cron, later))
                            ELSE None
                caught == scan_raised \/ patch_raised \/ (reached /\ save = "raised")
            IN /\ patching => patch \in PatchOutcomes(to_patch)
               /\ schedules' = IF reached
                               THEN [schedules EXCEPT
                                       ![schedule_id].last_run = Some(IsoFormat(clock)),
                                       ![schedule_id].next_run = next_run]
                               ELSE schedules
               /\ schedule_file' = IF reached
                                   THEN FileAfterSave(schedule_file, schedules', save)
                                   ELSE schedule_file
               /\ clock' = IF reached THEN later ELSE clock
               /\ sched_call' = [NoCall EXCEPT
                     !.op = "run_schedule", !.schedule_id = schedule_id,
                     !.previous = Some(schedule),
                     !.results = Some(IF caught THEN AfterExcept(results2) ELSE results2),
                     !.scanner_calls = IF scanned
                                       THEN <<IF scan_raised THEN "raised" ELSE "returned">>
                                       ELSE <<>>,
                     !.patcher_calls = IF patching
                                       THEN <<[to_patch |-> to_patch,
                                               strategy |-> schedule.patch_strategy,
                                               dry_run |-> schedule.dry_run,
                                               updated |-> IF patch_raised THEN <<>>
                                                           ELSE Val(patch).packages_updated,
                                               outcome |-> IF patch_raised THEN "raised"
                                                           ELSE IF Val(patch).success
                                                           THEN "patched" ELSE "failed"]>>
                                       ELSE <<>>,
                     !.found = found,
                     !.saves = IF reached THEN <<save>> ELSE <<>>,
                     !.last_now = IF reached THEN Some(clock) ELSE None,
                     !.calc_now = IF reached THEN Some(later) ELSE None]
    /\ UNCHANGED <<patcherVars, execVars, decision, apt_update_lock,
                   apt_last_updated, pc, op, frame, plan, refresh_log, config_dir,
                   resolverVars>>

\* delete_schedule(schedule_id)
DeleteSchedule(schedule_id) ==
    /\ calls < MaxSchedCalls
    /\ calls' = calls + 1
    /\ LET save == SaveSchedules(config_dir)
       IN
       IF schedule_id \in DOMAIN schedules
       THEN /\ schedules' = [i \in DOMAIN schedules \ {schedule_id} |-> schedules[i]]
            /\ schedule_file' = FileAfterSave(schedule_file, schedules', save)
            /\ sched_call' = [NoCall EXCEPT
                  !.op = "delete_schedule", !.schedule_id = schedule_id,
                  !.previous = Some(schedules[schedule_id]),
                  !.raised = IF save = "raised" THEN Some("OSError") ELSE None,
                  !.deleted = IF save = "raised" THEN None ELSE Some(TRUE),
                  !.saves = <<save>>]
       ELSE /\ sched_call' = [NoCall EXCEPT !.op = "delete_schedule",
                                            !.schedule_id = schedule_id,
                                            !.deleted = Some(FALSE)]
            /\ UNCHANGED <<schedules, schedule_file>>
    /\ UNCHANGED <<patcherVars, execVars, decision, clock, apt_update_lock,
                   apt_last_updated, pc, op, frame, plan, refresh_log, config_dir,
                   resolverVars>>

\* ScheduleFrequency(value): the member with the value
FrequencyOf(value) ==
    CHOOSE f \in ScheduleFrequency : FrequencyValue(f) = value

\* _load_schedules(): the schedules of the file, by schedule id
LoadSchedules(file) ==
    IF file = None THEN <<>>
    ELSE [i \in DOMAIN Val(file) |->
            [schedule_id |-> Val(file)[i].schedule_id,
             frequency |-> FrequencyOf(Val(file)[i].frequency),
             scan_enabled |-> Val(file)[i].scan_enabled,
             patch_enabled |-> Val(file)[i].patch_enabled,
             patch_strategy |-> Val(file)[i].patch_strategy,
             dry_run |-> Val(file)[i].dry_run,
             last_run |-> Val(file)[i].last_run,
             next_run |-> Val(file)[i].next_run,
             custom_cron |-> Val(file)[i].custom_cron]]

\* the schedule files a scheduler is constructed over: none, or the file an
\* earlier process left after creating and running the schedule "nightly"
ScheduleFiles ==
    {None,
     Some([i \in {"nightly"} |->
            [schedule_id |-> "nightly", frequency |-> "daily", scan_enabled |-> TRUE,
             patch_enabled |-> FALSE, patch_strategy |-> "critical_only",
             dry_run |-> TRUE, last_run |-> Some(IsoFormat(0)),
             next_run |-> Some(IsoFormat(TimeDelta(1, 0))), custom_cron |-> None]])}

\* SecurityScheduler(): the schedules are loaded from the file, if any
InitSched ==
    /\ strategy = "critical_only"
    /\ dry_run = TRUE
    /\ whitelist = {}
    /\ blacklist = {}
    /\ min_severity = "medium"
    /\ patcher_config = None
    /\ decision = None
    /\ clock = 0
    /\ apt_update_lock = Unlocked
    /\ apt_last_updated = None
    /\ pc = [t \in Threads |-> "idle"]
    /\ op = [t \in Threads |-> "none"]
    /\ frame = [t \in Threads |-> NoFrame]
    /\ plan = [t \in Threads |-> NoPlan]
    /\ exec = [t \in Threads |-> NoExec]
    /\ history = <<>>
    /\ calls = 0
    /\ refresh_log = <<>>
    /\ config_dir \in ConfigDirs
    /\ schedule_file \in ScheduleFiles
    /\ schedules = LoadSchedules(schedule_file)
    /\ sched_call = NoCall
    /\ conflict_data = None
    /\ resolved = None

NextSched ==
    \/ Tick
    \/ \E id \in ScheduleIds, a \in ScheduleArgs : CreateSchedule(id, a)
    \/ \E id \in ScheduleIds, scan \in ScanOutcomes, gap \in 0..1 :
          \E patch \in PatchOutcomes(CriticalOrHigh(IF scan = None THEN <<>> ELSE Val(scan))) :
              RunSchedule(id, scan, patch, gap)
    \/ \E id \in ScheduleIds : DeleteSchedule(id)

SpecSched == InitSched /\ [][NextSched]_vars

(***************************************************************************)
(* AutonomousPatcher() over a filter configuration document: _load_config  *)
(***************************************************************************)
\* str.lower(), letter by letter
LowerChar(c) ==
    CASE c = "A" -> "a" [] c = "B" -> "b" [] c = "C" -> "c" [] c = "D" -> "d"
      [] c = "E" -> "e" [] c = "F" -> "f" [] c = "G" -> "g" [] c = "H" -> "h"
      [] c = "I" -> "i" [] c = "J" -> "j" [] c = "K" -> "k" [] c = "L" -> "l"
      [] c = "M" -> "m" [] c = "N" -> "n" [] c = "O" -> "o" [] c = "P" -> "p"
      [] c = "Q" -> "q" [] c = "R" -> "r" [] c = "S" -> "s" [] c = "T" -> "t"
      [] c = "U" -> "u" [] c = "V" -> "v" [] c = "W" -> "w" [] c = "X" -> "x"
      [] c = "Y" -> "y" [] c = "Z" -> "z" [] OTHER -> c

RECURSIVE Lower(_)
Lower(s) ==
    IF s = "" THEN s ELSE LowerChar(SubSeq(s, 1, 1)) \o Lower(SubSeq(s, 2, Len(s)))

\* config.get(key, default)
Get(config, key, default) == IF key \in DOMAIN config THEN config[key] ELSE default

\* the filters a new patcher starts from
DefaultFilters == [whitelist |-> {}, blacklist |-> {}, min_severity |-> "medium"]

\* _load_config(): the filters after it. The three assignments are made in
\* turn inside one try block: Severity(min_sev.lower()) raises for a value
\* that is no severity, after the whitelist and the blacklist were assigned
LoadConfig(file) ==
    IF file = None THEN DefaultFilters
    ELSE LET config == Val(file)
             min_sev == Lower(Get(config, "min_severity", "medium"))
         IN [whitelist |-> Get(config, "whitelist", {}),
             blacklist |-> Get(config, "blacklist", {}),
             min_severity |-> IF min_sev \in Severity THEN min_sev
                              ELSE DefaultFilters.min_severity]

\* the documents a patcher is constructed over: none, a document with every
\* field, one with an upper-case severity, one with no field but the
\* blacklist, and two whose min_severity is no severity
ConfigDocuments ==
    {None,
     Some([whitelist |-> {"openssl"}, blacklist |-> {"linux-image-generic"},
           min_severity |-> "low"]),
     Some([whitelist |-> {}, blacklist |-> {}, min_severity |-> "HIGH"]),
     Some([blacklist |-> {"openssl"}]),
     Some([whitelist |-> {"openssl"}, blacklist |-> {"linux-image-generic"},
           min_severity |-> "severe"]),
     Some([whitelist |-> {}, blacklist |-> {"openssl"}, min_severity |-> ""])}

\* AutonomousPatcher(): a patcher constructed with the default arguments over
\* the document as the last process left it
Construct ==
    /\ calls < MaxCalls
    /\ calls' = calls + 1
    /\ strategy' = "critical_only"
    /\ dry_run' = TRUE
    /\ whitelist' = LoadConfig(patcher_config).whitelist
    /\ blacklist' = LoadConfig(patcher_config).blacklist
    /\ min_severity' = LoadConfig(patcher_config).min_severity
    /\ decision' = None
    /\ UNCHANGED <<resolverVars, schedVars, execVars, patcher_config, clock, apt_update_lock,
                   apt_last_updated, pc, op, frame, plan, refresh_log>>

InitConfig ==
    /\ strategy = "critical_only"
    /\ dry_run = TRUE
    /\ patcher_config \in ConfigDocuments
    /\ whitelist = LoadConfig(patcher_config).whitelist
    /\ blacklist = LoadConfig(patcher_config).blacklist
    /\ min_severity = LoadConfig(patcher_config).min_severity
    /\ decision = None
    /\ clock = 0
    /\ apt_update_lock = Unlocked
    /\ apt_last_updated = None
    /\ pc = [t \in Threads |-> "idle"]
    /\ op = [t \in Threads |-> "none"]
    /\ frame = [t \in Threads |-> NoFrame]
    /\ plan = [t \in Threads |-> NoPlan]
    /\ exec = [t \in Threads |-> NoExec]
    /\ history = <<>>
    /\ calls = 0
    /\ refresh_log = <<>>
    /\ schedules = <<>>
    /\ schedule_file = None
    /\ sched_call = NoCall
    /\ config_dir = "writable"
    /\ conflict_data = None
    /\ resolved = None

NextConfig ==
    \/ Construct
    \/ \E p \in Packages : AddToWhitelist(p)
    \/ \E p \in Packages : AddToBlacklist(p)
    \/ \E s \in Severity : SetMinSeverity(s)

SpecConfig == InitConfig /\ [][NextConfig]_vars

(***************************************************************************)
(* DependencyResolver.resolve (resolver.py).  The requirement strings are  *)
(* handled character by character, as str.lstrip and                       *)
(* semantic_version.Version.coerce handle them.                            *)
(***************************************************************************)
Digits == {"0", "1", "2", "3", "4", "5", "6", "7", "8", "9"}

Letters ==
    {"a", "b", "c", "d", "e", "f", "g", "h", "i", "j", "k", "l", "m",
     "n", "o", "p", "q", "r", "s", "t", "u", "v", "w", "x", "y", "z",
     "A", "B", "C", "D", "E", "F", "G", "H", "I", "J", "K", "L", "M",
     "N", "O", "P", "Q", "R", "S", "T", "U", "V", "W", "X", "Y", "Z"}

\* s[i - 1] in Python's indexing, "" past the end
Char(s, i) == IF i >= 1 /\ i <= Len(s) THEN SubSeq(s, i, i) ELSE ""

\* s[i - 1:]
From(s, i) == SubSeq(s, i, Len(s))

\* str.lstrip(chars)
RECURSIVE LStrip(_, _)
LStrip(s, chars) ==
    IF Len(s) > 0 /\ Char(s, 1) \in chars THEN LStrip(From(s, 2), chars) ELSE s

\* str.find(c) from position i on, 1-based, 0 when c does not occur
RECURSIVE Find(_, _, _)
Find(s, c, i) ==
    IF i > Len(s) THEN 0
    ELSE IF Char(s, i) = c THEN i ELSE Find(s, c, i + 1)

\* c.join(parts), parts not empty
RECURSIVE Join(_, _)
Join(parts, c) ==
    IF Len(parts) = 1 THEN parts[1]
    ELSE parts[1] \o c \o Join(Tail(parts), c)

\* the length of the run of digits that starts at position i
RECURSIVE DigitRun(_, _)
DigitRun(s, i) ==
    IF Char(s, i) \in Digits THEN 1 + DigitRun(s, i + 1) ELSE 0

\* match.end() of ^\d+(?:\.\d+(?:\.\d+)?)? on s, 0 when there is no match
BaseEnd(s) ==
    LET d1 == DigitRun(s, 1)
        d2 == IF Char(s, d1 + 1) = "." THEN DigitRun(s, d1 + 2) ELSE 0
        e2 == d1 + 1 + d2
        d3 == IF d2 > 0 /\ Char(s, e2 + 1) = "." THEN DigitRun(s, e2 + 2) ELSE 0
    IN  IF d1 = 0 THEN 0
        ELSE IF d2 = 0 THEN d1
        ELSE IF d3 = 0 THEN e2
        ELSE e2 + 1 + d3

\* while version.count('.') < 2: version += '.0'
RECURSIVE PadBase(_)
PadBase(version) ==
    IF Len(Split(version, ".")) < 3 THEN PadBase(version \o ".0") ELSE version

\* part.lstrip('0') or '0'
StripZeros(part) ==
    LET t == LStrip(part, {"0"}) IN IF t = "" THEN "0" ELSE t

\* re.sub(r'[^a-zA-Z0-9+.-]', '-', rest)
RECURSIVE Sanitize(_)
Sanitize(rest) ==
    IF rest = "" THEN ""
    ELSE (IF Char(rest, 1) \in Digits \cup Letters \cup {"+", ".", "-"}
          THEN Char(rest, 1) ELSE "-") \o Sanitize(From(rest, 2))

\* str.replace(old, new) for single characters
RECURSIVE Replace(_, _, _)
Replace(s, old, new) ==
    IF s = "" THEN ""
    ELSE (IF Char(s, 1) = old THEN new ELSE Char(s, 1)) \o Replace(From(s, 2), old, new)

\* int(digits)
DigitValue(c) ==
    CASE c = "0" -> 0 [] c = "1" -> 1 [] c = "2" -> 2 [] c = "3" -> 3
      [] c = "4" -> 4 [] c = "5" -> 5 [] c = "6" -> 6 [] c = "7" -> 7
      [] c = "8" -> 8 [] c = "9" -> 9

RECURSIVE ToInt(_)
ToInt(digits) ==
    IF digits = "" THEN 0
    ELSE 10 * ToInt(SubSeq(digits, 1, Len(digits) - 1)) + DigitValue(Char(digits, Len(digits)))

\* the prerelease and build parts that coerce cuts out of what follows the base
RestParts(rest) ==
    LET clean == Sanitize(rest)
        cut(r) == LET k == Find(r, "+", 1)
                  IN  IF k > 0
                      THEN [prerelease |-> SubSeq(r, 1, k - 1), build |-> From(r, k + 1)]
                      ELSE [prerelease |-> r, build |-> ""]
        parts == IF Char(clean, 1) \in {"+", "."}
                 THEN [prerelease |-> "", build |-> From(clean, 2)]
                 ELSE IF Char(clean, 1) = "-" THEN cut(From(clean, 2))
                 ELSE cut(clean)
    IN  [prerelease |-> parts.prerelease, build |-> Replace(parts.build, "+", ".")]

\* Version._validate_identifiers: the first complaint, None when there is none
InvalidIdentifier(text, allow_leading_zeroes) ==
    LET items == Split(text, ".")
        empty == {i \in 1..Len(items) : items[i] = ""}
        zero == {i \in 1..Len(items) :
                    /\ ~allow_leading_zeroes
                    /\ Char(items[i], 1) = "0"
                    /\ DigitRun(items[i], 1) = Len(items[i])
                    /\ items[i] # "0"}
        bad == empty \cup zero
        first == CHOOSE i \in bad : \A j \in bad : i <= j
    IN  IF text = "" \/ bad = {} THEN None
        ELSE IF first \in empty
             THEN Some("Invalid empty identifier '' in '" \o text \o "'")
             ELSE Some("Invalid leading zero in identifier '" \o items[first] \o "'")

\* semantic_version.Version.coerce(version_string): the version, or the
\* message of the ValueError it raises
Coerce(version_string) ==
    LET end == BaseEnd(version_string)
        comps == Split(PadBase(SubSeq(version_string, 1, end)), ".")
        base == Join([i \in 1..3 |-> StripZeros(comps[i])], ".")
        rest == RestParts(From(version_string, end + 1))
        text == base
                \o (IF rest.prerelease # "" THEN "-" \o rest.prerelease ELSE "")
                \o (IF rest.build # "" THEN "+" \o rest.build ELSE "")
        pre_error == InvalidIdentifier(rest.prerelease, FALSE)
        build_error == InvalidIdentifier(rest.build, TRUE)
    IN  IF end = 0
        THEN [version |-> None,
              error |-> Some("Version string lacks a numerical component: '"
                             \o version_string \o "'")]
        ELSE IF pre_error # None THEN [version |-> None, error |-> pre_error]
        ELSE IF build_error # None THEN [version |-> None, error |-> build_error]
        ELSE [version |-> Some([major |-> ToInt(StripZeros(comps[1])), text |-> text]),
              error |-> None]

required_keys == <<"package_a", "package_b", "dependency">>

OperatorChars == {"^", "~", ">", "=", "<"}

\* what a call of resolve does: the exception it raises or the list it returns
Raises(type, arg) == [raised |-> Some([type |-> type, arg |-> arg]), returned |-> None]
Returns(strategies) == [raised |-> None, returned |-> Some(strategies)]

\* raise KeyError(f"Missing required key: {key}")
MissingKey_AsErrorStrategy(key) ==
    Returns(<<[id |-> 0, type |-> "Error",
               action |-> "Manual resolution required. Missing required key: " \o key,
               risk |-> "High"]>>)

MissingKey(key) == Raises("KeyError", "Missing required key: " \o key)

\* the list returned from the except ValueError block
ErrorStrategies(e) ==
    <<[id |-> 0, type |-> "Error",
       action |-> "Manual resolution required. Invalid SemVer: " \o e,
       risk |-> "High"]>>

RiskLevel(ver_a, ver_b) ==
    IF ver_b.major < ver_a.major
    THEN "Medium (breaking changes detected)"
    ELSE "Low (no breaking changes detected)"

Recommended(pkg_a, pkg_b, dep, ver_a, ver_b) ==
    [id |-> 1, type |-> "Recommended",
     action |-> "Update " \o pkg_b.name \o " to " \o ver_a.text
                \o " (compatible with " \o dep \o ")",
     risk |-> RiskLevel(ver_a, ver_b)]

Alternative(pkg_a, pkg_b) ==
    [id |-> 2, type |-> "Alternative",
     action |-> "Keep " \o pkg_b.name \o ", downgrade " \o pkg_a.name
                \o " to compatible version",
     risk |-> "Medium (potential feature loss in " \o pkg_a.name \o ")"]

UpgradeStrategies_AlternativeFirst(pkg_a, pkg_b, dep, ver_a, ver_b) ==
    <<Alternative(pkg_a, pkg_b), Recommended(pkg_a, pkg_b, dep, ver_a, ver_b)>>

\* the two appends after the try block
UpgradeStrategies(pkg_a, pkg_b, dep, ver_a, ver_b) ==
    <<Recommended(pkg_a, pkg_b, dep, ver_a, ver_b), Alternative(pkg_a, pkg_b)>>

\* DependencyResolver.resolve(conflict_data)
ResolveOutcome(data) ==
    LET missing == {i \in 1..Len(required_keys) : required_keys[i] \notin DOMAIN data}
        first == CHOOSE i \in missing : \A j \in missing : i <= j
        pkg_a == data.package_a
        pkg_b == data.package_b
        dep == data.dependency
        raw_a == LStrip(pkg_a.requires, OperatorChars)
        raw_b == LStrip(pkg_b.requires, OperatorChars)
        ver_a == Coerce(raw_a)
        ver_b == Coerce(raw_b)
    IN  IF missing # {} THEN MissingKey(required_keys[first])
        ELSE IF "requires" \notin DOMAIN pkg_a \/ "requires" \notin DOMAIN pkg_b
             THEN Raises("KeyError", "requires")
        ELSE IF ver_a.version = None THEN Returns(ErrorStrategies(Val(ver_a.error)))
        ELSE IF ver_b.version = None THEN Returns(ErrorStrategies(Val(ver_b.error)))
        ELSE IF "name" \notin DOMAIN pkg_b \/ "name" \notin DOMAIN pkg_a
             THEN Raises("KeyError", "name")
        ELSE Returns(UpgradeStrategies(pkg_a, pkg_b, dep,
                                       Val(ver_a.version), Val(ver_b.version)))

\* the requirement strings of the tests and some more
Requirements ==
    {"^2.0.0", "~1.9.0", "==2.0.0", "^2.1.0", ">=1.0.0,<2.0.0", "1.5.0",
     "~1.2.3", ">=1.2.0", "invalid-version", "1.0.0", "2", "01.10", "1.0.0..",
     "1.0.0-01", "3.1.4-rc.1+build+7", ""}

\* the package dicts a caller passes for one side of the conflict
PackageDicts(name) ==
    {[name |-> name, requires |-> r] : r \in Requirements}
    \cup {[name |-> name], [requires |-> "^2.0.0"], [requires |-> "invalid-version"]}

ConflictData ==
    LET full == {[dependency |-> "lib-x", package_a |-> a, package_b |-> b] :
                    a \in PackageDicts("pkg-a"), b \in PackageDicts("pkg-b")}
        drop(data, key) == [k \in DOMAIN data \ {key} |-> data[k]]
    IN  full \cup {drop(data, key) : data \in full, key \in {"package_a", "package_b", "dependency"}}
             \cup {[package_a |-> [name |-> "pkg-a"]]}

Resolve ==
    /\ resolved = None
    /\ resolved' = Some(ResolveOutcome(conflict_data))
    /\ UNCHANGED <<conflict_data, schedVars, patcherVars, execVars, decision, gateVars>>

InitResolve ==
    /\ conflict_data \in ConflictData
    /\ resolved = None
    /\ strategy = "critical_only"
    /\ dry_run = TRUE
    /\ whitelist = {}
    /\ blacklist = {}
    /\ min_severity = "medium"
    /\ patcher_config = None
    /\ decision = None
    /\ clock = 0
    /\ apt_update_lock = Unlocked
    /\ apt_last_updated = None
    /\ pc = [t \in Threads |-> "idle"]
    /\ op = [t \in Threads |-> "none"]
    /\ frame = [t \in Threads |-> NoFrame]
    /\ plan = [t \in Threads |-> NoPlan]
    /\ exec = [t \in Threads |-> NoExec]
    /\ history = <<>>
    /\ calls = 0
    /\ refresh_log = <<>>
    /\ schedules = <<>>
    /\ schedule_file = None
    /\ sched_call = NoCall
    /\ config_dir = "writable"

NextResolve == Resolve

SpecResolve == InitResolve /\ [][NextResolve]_vars

(***************************************************************************)
(* Claims about _should_patch (specification SpecPolicy).                  *)
(***************************************************************************)
Decided == decision # None
DecidedPkg == Val(decision).v.package_name
DecidedSev == Val(decision).v.severity
DecidedResult == Val(decision).result
RankOk == severity_order(DecidedSev) >= severity_order(min_severity)

\* C1: _should_patch returns false for every vulnerability whose package is in
\* the blacklist, whatever the whitelist, the severity, the minimum severity
\* and the strategy; in particular when the package is in both lists.
C1_BlacklistPrecedence ==
    (Decided /\ DecidedPkg \in blacklist) => DecidedResult = FALSE

C1_Witness ==
    /\ Decided
    /\ DecidedPkg \in blacklist
    /\ DecidedPkg \in whitelist
    /\ DecidedResult = FALSE

\* C2: for a package in neither list whose severity rank is not below the
\* minimum, the result is TRUE under automatic, (severity = critical) under
\* critical_only, (severity in {critical, high}) under high_and_above and
\* FALSE under manual; and manual never returns TRUE for a package that is
\* not whitelisted.
C2_StrategyDispatch ==
    /\ (Decided /\ DecidedPkg \notin blacklist /\ DecidedPkg \notin whitelist /\ RankOk) =>
          /\ strategy = "automatic" => DecidedResult = TRUE
          /\ strategy = "critical_only" => DecidedResult = (DecidedSev = "critical")
          /\ strategy = "high_and_above" =>
                DecidedResult = (DecidedSev \in {"critical", "high"})
          /\ strategy = "manual" => DecidedResult = FALSE
    /\ (Decided /\ strategy = "manual" /\ DecidedPkg \notin whitelist) =>
          DecidedResult = FALSE

C2_Witness ==
    /\ Decided
    /\ DecidedPkg \notin blacklist \cup whitelist
    /\ RankOk
    /\ strategy = "high_and_above"
    /\ DecidedSev = "high"
    /\ min_severity = "low"
    /\ DecidedResult = TRUE

\* C3: for a package in neither list whose severity rank is strictly below
\* the rank of the minimum severity, _should_patch returns false under every
\* strategy, automatic included.
C3_BelowFloor ==
    (Decided /\ DecidedPkg \notin blacklist /\ DecidedPkg \notin whitelist /\ ~RankOk) =>
        DecidedResult = FALSE

C3_Witness ==
    /\ Decided
    /\ DecidedPkg \notin blacklist \cup whitelist
    /\ strategy = "automatic"
    /\ DecidedSev = "high"
    /\ min_severity = "critical"
    /\ DecidedResult = FALSE

\* C4: for a package in the whitelist and not in the blacklist,
\* _should_patch returns true whatever the severity and the strategy.
C4_WhitelistAlways ==
    (Decided /\ DecidedPkg \in whitelist /\ DecidedPkg \notin blacklist) =>
        DecidedResult = TRUE

C4_Witness ==
    /\ Decided
    /\ DecidedPkg \in whitelist
    /\ DecidedPkg \notin blacklist
    /\ DecidedSev = "unknown"
    /\ min_severity = "critical"
    /\ strategy = "manual"
    /\ DecidedResult = TRUE

(***************************************************************************)
(* Claims about ensure_apt_updated (specification SpecGate).               *)
(***************************************************************************)
\* the calls whose external refresh has been invoked: those logged, then
\* those still running
Attempts ==
    refresh_log \o
    (IF \E t \in Threads : pc[t] = "ensure_running"
     THEN LET t == CHOOSE u \in Threads : pc[u] = "ensure_running"
          IN <<[now |-> frame[t].now, force |-> frame[t].force, ok |-> FALSE]>>
     ELSE <<>>)

\* C5: a non-forced call invokes the external refresh only if no refresh
\* attempt was recorded less than 300 seconds before it, and an attempt is
\* recorded whether the refresh succeeded or failed; so of two non-forced
\* calls within the interval at most the first invokes the refresh, also when
\* it failed.
C5_RateLimited ==
    /\ \A j \in 1..Len(Attempts) : \A i \in 1..(j - 1) :
          ~Attempts[j].force =>
              Attempts[j].now - Attempts[i].now >= APT_UPDATE_INTERVAL_SECONDS
    /\ refresh_log # <<>> =>
          apt_last_updated = Some(refresh_log[Len(refresh_log)].now)
    /\ \A t \in Threads : (pc[t] = "ensure_ret" /\ ~frame[t].force) =>
          (frame[t].invoked = 0 <=>
             (/\ frame[t].stamp_in # None
              /\ frame[t].now - Val(frame[t].stamp_in) < APT_UPDATE_INTERVAL_SECONDS))

\* a non-forced call returned without refreshing, less than 300 seconds after
\* the only refresh so far, which was non-forced and failed
C5_Witness ==
    /\ Len(refresh_log) = 1
    /\ ~refresh_log[1].force
    /\ ~refresh_log[1].ok
    /\ \E t \in Threads :
          /\ pc[t] = "ensure_ret"
          /\ ~frame[t].force
          /\ frame[t].invoked = 0
          /\ frame[t].result = TRUE
          /\ frame[t].now > refresh_log[1].now
          /\ frame[t].now - refresh_log[1].now < APT_UPDATE_INTERVAL_SECONDS

\* C6: a call with force = True invokes the external refresh, whatever the
\* recorded timestamp; a call that does not return early sets the timestamp
\* exactly once (to its own now); a call that returns early invokes nothing
\* and leaves the timestamp as it found it.
C6_ForceAndSingleWrite ==
    \A t \in Threads : pc[t] = "ensure_ret" =>
        /\ frame[t].force => (~frame[t].early /\ frame[t].invoked = 1)
        /\ ~frame[t].early =>
              /\ frame[t].invoked = 1
              /\ frame[t].writes = 1
              /\ frame[t].stamp_out = Some(frame[t].now)
        /\ frame[t].early =>
              /\ frame[t].invoked = 0
              /\ frame[t].writes = 0
              /\ frame[t].stamp_out = frame[t].stamp_in

\* a forced call refreshed although the timestamp was less than 300 s old
C6_Witness ==
    \E t \in Threads :
        /\ pc[t] = "ensure_ret"
        /\ frame[t].force
        /\ frame[t].stamp_in # None
        /\ frame[t].now - Val(frame[t].stamp_in) < APT_UPDATE_INTERVAL_SECONDS
        /\ frame[t].invoked = 1
        /\ frame[t].writes = 1

\* two calls of ensure_apt_updated(force=False) that ran concurrently, both
\* about to return
ConcurrentPair(t, u) ==
    /\ t # u
    /\ pc[t] = "ensure_ret" /\ pc[u] = "ensure_ret"
    /\ ~frame[t].force /\ ~frame[u].force
    /\ u \in frame[t].overlaps \/ t \in frame[u].overlaps

\* t took the lock before u, and found no attempt within the interval
FirstFoundStale(t, u) ==
    /\ ConcurrentPair(t, u)
    /\ frame[u].stamp_in = frame[t].stamp_out
    /\ frame[t].invoked = 1

\* C25: when several threads call ensure_apt_updated(force=False)
\* concurrently and no refresh attempt was recorded within the interval,
\* exactly one of them performs the external refresh; every other caller
\* waits for the lock until that refresh has finished and then returns true
\* without invoking the external refresh.
C25_OneRefreshAmongConcurrent ==
    \A t, u \in Threads : FirstFoundStale(t, u) =>
        /\ frame[u].stamp_in = Some(frame[t].now)
        /\ frame[u].invoked = 0
        /\ frame[u].result = TRUE

\* C25, when the waiting caller takes the lock less than 300 seconds after
\* the refreshing caller took it
C25_WhenRefreshIsShort ==
    \A t, u \in Threads :
        (FirstFoundStale(t, u)
           /\ frame[u].now - frame[t].now < APT_UPDATE_INTERVAL_SECONDS) =>
            /\ frame[u].stamp_in = Some(frame[t].now)
            /\ frame[u].invoked = 0
            /\ frame[u].result = TRUE

\* a caller waited for a refresh that failed, and returned true without one
C25_WaiterSkips ==
    \E t, u \in Threads :
        /\ FirstFoundStale(t, u)
        /\ t \in frame[u].overlaps
        /\ ~frame[t].result
        /\ frame[u].invoked = 0
        /\ frame[u].result = TRUE

\* C29: ensure_apt_updated returns false only when this very call invoked
\* the external refresh and the refresh failed; every call that skips the
\* refresh returns true, so a non-forced call within the interval after a
\* failed refresh reports true although the index was never refreshed
\* successfully.
C29_FalseOnlyOnOwnFailure ==
    \A t \in Threads : pc[t] = "ensure_ret" =>
        /\ ~frame[t].result =>
              /\ frame[t].invoked = 1
              /\ frame[t].refresh = Some(FALSE)
        /\ frame[t].invoked = 0 =>
              /\ frame[t].refresh = None
              /\ frame[t].result = TRUE

\* no refresh has ever succeeded, the last one failed less than 300 seconds
\* ago, and a non-forced call skipped the refresh and returned true
C29_Witness ==
    \E t \in Threads :
        /\ pc[t] = "ensure_ret"
        /\ ~frame[t].force
        /\ frame[t].invoked = 0
        /\ frame[t].result = TRUE
        /\ refresh_log # <<>>
        /\ \A i \in 1..Len(refresh_log) : ~refresh_log[i].ok
        /\ frame[t].now - refresh_log[Len(refresh_log)].now < APT_UPDATE_INTERVAL_SECONDS

\* a call refreshed, the refresh failed, and the call returned false
C29_FailureWitness ==
    \E t \in Threads :
        /\ pc[t] = "ensure_ret"
        /\ frame[t].refresh = Some(FALSE)
        /\ ~frame[t].result

(***************************************************************************)
(* Claims about create_patch_plan (specification SpecPlan).                *)
(***************************************************************************)
\* a create_patch_plan call of thread t has returned
PlanReturned(t) == pc[t] = "plan_ret"
ReturnedPlan(t) == Val(plan[t].returned)

\* the vulnerabilities of the list given that pass the policy filter
PassesFilter(t, i) == should_patch(plan[t].vulns[i])
FilteredPackages(t) ==
    {plan[t].vulns[i].package_name : i \in {k \in 1..Len(plan[t].vulns) : PassesFilter(t, k)}}

\* the keys of the returned packages_to_update
PlanKeys(t) ==
    {ReturnedPlan(t).packages_to_update[i].package :
        i \in 1..Len(ReturnedPlan(t).packages_to_update)}

\* the package names that identify a kernel image or kernel headers
KernelNames == {"linux-image-generic", "linux-headers-generic"}

\* C8: create_patch_plan on a list that is empty, or from which _should_patch
\* removes every entry, returns a plan with no vulnerabilities, no packages,
\* duration 0, requires_reboot false and rollback_available true, and calls
\* neither the refresh gate nor any candidate-version lookup.
C8_EmptyPlan ==
    \A t \in Threads :
        (PlanReturned(t) /\ \A i \in 1..Len(plan[t].vulns) : ~PassesFilter(t, i)) =>
            /\ ReturnedPlan(t).vulnerabilities = <<>>
            /\ ReturnedPlan(t).packages_to_update = <<>>
            /\ ReturnedPlan(t).estimated_duration_minutes = 0
            /\ ReturnedPlan(t).requires_reboot = FALSE
            /\ ReturnedPlan(t).rollback_available = TRUE
            /\ plan[t].gate_calls = 0
            /\ frame[t].invoked = 0
            /\ plan[t].lookups = <<>>

\* a non-empty list was filtered out entirely and the empty plan returned
C8_Witness ==
    \E t \in Threads :
        /\ PlanReturned(t)
        /\ Len(plan[t].vulns) = 2
        /\ \A i \in 1..Len(plan[t].vulns) : ~PassesFilter(t, i)
        /\ ReturnedPlan(t).packages_to_update = <<>>
        /\ plan[t].gate_calls = 0

\* C9: in every returned plan a package is a key of packages_to_update iff
\* one of its vulnerabilities passed the filter and its lookup reported a
\* usable candidate, and the mapped value is that candidate.
C9_KeysAndCandidates ==
    \A t \in Threads : PlanReturned(t) =>
        /\ \A p \in PlanPackages :
              p \in PlanKeys(t) <=>
                 /\ p \in FilteredPackages(t)
                 /\ \E i \in 1..Len(plan[t].lookups) :
                       /\ plan[t].lookups[i].package = p
                       /\ plan[t].lookups[i].candidate # None
        /\ \A i \in 1..Len(ReturnedPlan(t).packages_to_update) :
              \E j \in 1..Len(plan[t].lookups) :
                  /\ plan[t].lookups[j].package = ReturnedPlan(t).packages_to_update[i].package
                  /\ plan[t].lookups[j].candidate =
                        Some(ReturnedPlan(t).packages_to_update[i].version)

\* C10: create_patch_plan returns requires_reboot = true whenever a
\* vulnerability that passes the filter names a kernel image or kernel
\* headers package (the claim as written).
C10_Original ==
    \A t \in Threads :
        (PlanReturned(t) /\ FilteredPackages(t) \cap KernelNames # {}) =>
            ReturnedPlan(t).requires_reboot = TRUE

\* C10 (amended): requires_reboot is true whenever a kernel image or kernel
\* headers package is a key of packages_to_update, that is, a vulnerability
\* of it passed the filter and its lookup yielded a version, whatever the
\* severity and the strategy; and it is false in every other plan.
C10_RebootIffKernelUpdated ==
    \A t \in Threads : PlanReturned(t) =>
        (ReturnedPlan(t).requires_reboot = TRUE <=> PlanKeys(t) \cap KernelNames # {})

\* under strategy manual, a low-severity vulnerability of the whitelisted
\* kernel headers package makes the plan require a reboot
C10_Witness ==
    \E t \in Threads :
        /\ PlanReturned(t)
        /\ strategy = "manual"
        /\ plan[t].vulns = <<[package_name |-> "linux-headers-generic", severity |-> "low"]>>
        /\ PlanKeys(t) = {"linux-headers-generic"}
        /\ ReturnedPlan(t).requires_reboot = TRUE

\* the thread is inside the refresh gate
InGate(t) == pc[t] \in {"ensure_wait", "ensure_check", "ensure_running"}

\* the packages looked up so far, in the order of the lookups
LookedUp(t) == [i \in 1..Len(plan[t].lookups) |-> plan[t].lookups[i].package]

\* C26: create_patch_plan with a non-empty filtered set calls
\* ensure_apt_updated(force=False) exactly once, before the first
\* candidate-version lookup, and then performs exactly one lookup for each
\* distinct package of the filtered set.
C26_GateOnceThenLookups ==
    \A t \in Threads : (op[t] = "plan" /\ FilteredPackages(t) # {}) =>
        /\ plan[t].gate_calls = 1
        /\ ~frame[t].force
        /\ InGate(t) => plan[t].lookups = <<>>
        /\ \A i, j \in 1..Len(LookedUp(t)) : LookedUp(t)[i] = LookedUp(t)[j] => i = j
        /\ \A i \in 1..Len(LookedUp(t)) : LookedUp(t)[i] \in FilteredPackages(t)
        /\ PlanReturned(t) =>
              /\ Len(LookedUp(t)) = Cardinality(FilteredPackages(t))
              /\ frame[t].invoked + (IF frame[t].early THEN 1 ELSE 0) = 1

\* two vulnerabilities of one package passed the filter: one gate call, one
\* lookup
C26_Witness ==
    \E t \in Threads :
        /\ PlanReturned(t)
        /\ Len(plan[t].to_patch) = 2
        /\ Cardinality(FilteredPackages(t)) = 1
        /\ plan[t].gate_calls = 1
        /\ Len(plan[t].lookups) = 1

\* two packages passed the filter: one gate call, two lookups
C26_TwoPackages ==
    \E t \in Threads :
        /\ PlanReturned(t)
        /\ Cardinality(FilteredPackages(t)) = 2
        /\ plan[t].gate_calls = 1
        /\ frame[t].invoked = 1
        /\ Len(plan[t].lookups) = 2

(***************************************************************************)
(* Claims about concurrent callers (specification SpecExec).               *)
(***************************************************************************)
\* the threads whose "apt-get update" is running: inside ensure_apt_updated,
\* or inside apply_patch_plan
GateRefreshing == {t \in Threads : pc[t] = "ensure_running"}
ApplyRefreshing == {t \in Threads : pc[t] = "apply_refresh"}

\* between taking and releasing the lock a caller is alone with the timestamp
TimestampAtomic ==
    \A t \in Threads : pc[t] \in {"ensure_check", "ensure_running"} =>
        /\ apt_update_lock = t
        /\ apt_last_updated = frame[t].stamp_in

\* C7: under every interleaving of concurrent callers at most one external
\* index refresh (apt-get update) is in flight at any time, and the shared
\* timestamp is read, tested and written atomically with respect to the
\* other callers.
C7_SingleRefreshInFlight ==
    /\ Cardinality(GateRefreshing \cup ApplyRefreshing) <= 1
    /\ TimestampAtomic

\* C7, for the callers of ensure_apt_updated alone: the part of the claim the
\* lock does guarantee
C7_GateCallersOnly ==
    /\ Cardinality(GateRefreshing) <= 1
    /\ TimestampAtomic

(***************************************************************************)
(* Claims about apply_patch_plan (specification SpecExec).                 *)
(***************************************************************************)
\* a call of apply_patch_plan about to hand its outcome to the caller
Applied(t) == pc[t] = "apply_ret"
Returned(t) == Applied(t) /\ exec[t].result # None
Result(t) == Val(exec[t].result)
EmptyPlanGiven(t) == exec[t].plan.packages_to_update = <<>>
RealRun(t) == op[t] = "apply" /\ ~dry_run /\ ~EmptyPlanGiven(t)

\* the keys of the plan given, in insertion order
PlanNames(t) ==
    [i \in 1..Len(exec[t].plan.packages_to_update) |->
        exec[t].plan.packages_to_update[i].package]

\* the call has created no history record and run no command
NoExternalAction(t) ==
    /\ exec[t].created = <<>>
    /\ exec[t].install_id = None
    /\ exec[t].refreshes = <<>>
    /\ exec[t].installs = <<>>
    /\ exec[t].outcomes = <<>>

\* C11: apply_patch_plan on a plan whose packages_to_update is empty returns
\* success = true with vulnerabilities_patched = 0, no packages updated, no
\* errors and no rollback id, in dry-run and in real mode alike, and performs
\* no external action (no history record, no refresh, no install), even when
\* the plan's vulnerability list is non-empty.
C11_EmptyPlanTrivial ==
    \A t \in Threads : op[t] = "apply" /\ EmptyPlanGiven(t) =>
        /\ Returned(t)
        /\ ~exec[t].raised
        /\ Result(t).success = TRUE
        /\ Result(t).vulnerabilities_patched = 0
        /\ Result(t).packages_updated = <<>>
        /\ Result(t).errors = <<>>
        /\ Result(t).rollback_id = None
        /\ NoExternalAction(t)

\* a real-mode call with one vulnerability and no package has returned
C11_Witness ==
    \E t \in Threads :
        /\ Returned(t)
        /\ ~dry_run
        /\ EmptyPlanGiven(t)
        /\ Len(exec[t].plan.vulnerabilities) = 1
        /\ Result(t).success = TRUE

\* C12: with dry_run true and a non-empty plan, apply_patch_plan invokes no
\* external action and returns success = true with an empty error list,
\* packages_updated equal to all keys of packages_to_update in insertion
\* order, and vulnerabilities_patched equal to the size of the plan's
\* vulnerability list.
C12_DryRunNoEffect ==
    \A t \in Threads : op[t] = "apply" /\ dry_run /\ ~EmptyPlanGiven(t) =>
        /\ Returned(t)
        /\ ~exec[t].raised
        /\ Result(t).success = TRUE
        /\ Result(t).errors = <<>>
        /\ Result(t).packages_updated = PlanNames(t)
        /\ Result(t).vulnerabilities_patched = Len(exec[t].plan.vulnerabilities)
        /\ NoExternalAction(t)
        /\ history = <<>>

\* a dry run of a plan with three vulnerabilities in two packages has returned
C12_Witness ==
    \E t \in Threads :
        /\ Returned(t)
        /\ dry_run
        /\ Result(t).packages_updated = <<"openssl", "linux-image-generic">>
        /\ Result(t).vulnerabilities_patched = 3

\* C13: in every result returned by apply_patch_plan, rollback_id is set iff
\* the call was a real execution of a plan with non-empty packages_to_update,
\* and it is then the identifier of the one history record created by that
\* call; a dry-run result never carries a rollback id.
C13_RollbackIffReal ==
    \A t \in Threads : Returned(t) =>
        /\ Result(t).rollback_id # None <=> RealRun(t)
        /\ dry_run => Result(t).rollback_id = None
        /\ Result(t).rollback_id # None =>
              /\ exec[t].created = <<Val(Result(t).rollback_id)>>
              /\ Val(Result(t).rollback_id) \in DOMAIN history
              /\ history[Val(Result(t).rollback_id)].packages = PlanNames(t)

\* a real execution returns the id of the second history record, after
\* another call created the first
C13_Witness ==
    \E t \in Threads :
        /\ Returned(t)
        /\ RealRun(t)
        /\ Result(t).rollback_id = Some(2)
        /\ Len(history) = 2

\* the packages whose install succeeded, and the messages of the failed
\* refresh and installs, both in attempt order
Succeeded(t) ==
    LET F[i \in 0..Len(exec[t].outcomes)] ==
            IF i = 0 THEN <<>>
            ELSE IF exec[t].outcomes[i] THEN Append(F[i - 1], PlanNames(t)[i])
            ELSE F[i - 1]
    IN F[Len(exec[t].outcomes)]

InstallsFailed(t) == {i \in DOMAIN exec[t].outcomes : ~exec[t].outcomes[i]}
RefreshesFailed(t) == {i \in DOMAIN exec[t].refreshes : ~exec[t].refreshes[i]}

\* C14, as stated: after a real execution of a non-empty plan,
\* packages_updated is exactly the subsequence of the plan's packages whose
\* install succeeded, errors contains exactly one message per package whose
\* install failed, success is false iff at least one install failed, and the
\* rollback id is non-null.
C14_Original ==
    \A t \in Threads : Returned(t) /\ RealRun(t) =>
        /\ Result(t).packages_updated = Succeeded(t)
        /\ Len(Result(t).errors) = Cardinality(InstallsFailed(t))
        /\ Result(t).success = FALSE <=> InstallsFailed(t) # {}
        /\ Result(t).rollback_id # None

\* C14, amended: every result of a real execution of a non-empty plan carries
\* a rollback id. When no exception was caught, packages_updated is exactly
\* the subsequence of the plan's packages whose install succeeded, errors
\* holds one message per failed install plus one when the index refresh
\* failed, and success is false iff the refresh or at least one install
\* failed. When an exception was caught, packages_updated is empty, success
\* is false and errors holds one further message.
C14_PartialFailure ==
    \A t \in Threads : Returned(t) /\ RealRun(t) =>
        /\ Result(t).rollback_id # None
        /\ Len(exec[t].outcomes) = Len(PlanNames(t))
        /\ ~exec[t].caught =>
              /\ Result(t).packages_updated = Succeeded(t)
              /\ Len(Result(t).errors) =
                    Cardinality(InstallsFailed(t)) + Cardinality(RefreshesFailed(t))
              /\ \A i \in InstallsFailed(t) : \E j \in DOMAIN Result(t).errors :
                    Result(t).errors[j] = "Failed to update " \o PlanNames(t)[i]
              /\ Result(t).success = FALSE <=>
                    (InstallsFailed(t) # {} \/ RefreshesFailed(t) # {})
        /\ exec[t].caught =>
              /\ Result(t).packages_updated = <<>>
              /\ Result(t).success = FALSE
              /\ Len(Result(t).errors) =
                    Cardinality(InstallsFailed(t)) + Cardinality(RefreshesFailed(t)) + 1

\* the refresh and the install of openssl succeed, the install of
\* linux-image-generic fails
C14_Witness ==
    \E t \in Threads :
        /\ Returned(t)
        /\ RealRun(t)
        /\ exec[t].refreshes = <<TRUE>>
        /\ exec[t].outcomes = <<TRUE, FALSE>>
        /\ Result(t).packages_updated = <<"openssl">>
        /\ Result(t).errors = <<"Failed to update linux-image-generic">>
        /\ Result(t).success = FALSE
        /\ Result(t).rollback_id # None

\* the install command of the i-th key of the plan given
PlanTarget(t, i) ==
    LET item == exec[t].plan.packages_to_update[i]
    IN IF item.version = "" THEN item.package ELSE item.package \o "=" \o item.version

C16_NeverPropagates ==
    \A t \in Threads : Applied(t) /\ RealRun(t) =>
        /\ ~exec[t].raised
        /\ exec[t].caught =>
              /\ Returned(t)
              /\ Result(t).success = FALSE
              /\ Len(Result(t).errors) = 1
              /\ Result(t).vulnerabilities_patched = 0
              /\ Result(t).packages_updated = <<>>
              /\ Result(t).rollback_id # None
              /\ history[Val(Result(t).rollback_id)].status = "failed"

\* C16, for the one failure the try block covers with no earlier error: when
\* update_installation raises after a clean refresh and clean installs and
\* the except block's own update succeeds, the result is the one described
C16_CaughtCleanRun ==
    \A t \in Threads :
        Returned(t) /\ RealRun(t) /\ exec[t].caught
            /\ InstallsFailed(t) = {} /\ RefreshesFailed(t) = {} =>
        /\ Result(t).success = FALSE
        /\ Result(t).errors = <<"Patch operation failed">>
        /\ Result(t).vulnerabilities_patched = 0
        /\ Result(t).packages_updated = <<>>
        /\ Result(t).rollback_id = exec[t].install_id
        /\ history[Val(exec[t].install_id)].status = "failed"

\* a real execution of thread t is under way or about to return
RealExecution(t) == op[t] = "apply" /\ RealRun(t)
InLoop(t) == pc[t] \in {"apply_refresh", "apply_install", "apply_update"}

\* the record of the call, once created
Record(t) == history[Val(exec[t].install_id)]

\* the record is created first and not updated before the loop has ended
CreatedFirst(t) ==
    /\ pc[t] = "apply_record" =>
          exec[t].created = <<>> /\ exec[t].refreshes = <<>> /\ exec[t].installs = <<>>
    /\ (InLoop(t) \/ exec[t].refreshes # <<>> \/ exec[t].installs # <<>>) =>
          /\ Len(exec[t].created) = 1
          /\ exec[t].install_id = Some(exec[t].created[1])
    /\ InLoop(t) => exec[t].updates = <<>> /\ Record(t).status = "in_progress"

\* the one update after the loop
UpdatedOnce(t) ==
    /\ Len(exec[t].updates) = 1
    /\ ~exec[t].updates[1].raised
    /\ Record(t).status =
          (IF InstallsFailed(t) # {} \/ RefreshesFailed(t) # {} THEN "failed" ELSE "success")
    /\ Len(Record(t).error) = Cardinality(InstallsFailed(t)) + Cardinality(RefreshesFailed(t))
    /\ \A i \in InstallsFailed(t) : \E j \in DOMAIN Record(t).error :
          Record(t).error[j] = "Failed to update " \o PlanNames(t)[i]

\* C27: in a real execution the history record is created before the index
\* refresh and before any install is attempted, and after the install loop it
\* is updated exactly once: to FAILED with all collected error messages when
\* at least one error was collected, to SUCCESS otherwise; no real execution
\* ends with its history record left in the initial in-progress state.
C27_RecordLifecycle ==
    \A t \in Threads : RealExecution(t) =>
        /\ CreatedFirst(t)
        /\ (Applied(t) /\ exec[t].created # <<>>) =>
              /\ UpdatedOnce(t)
              /\ Record(t).status # "in_progress"

\* C27, for the executions in which update_installation does not raise
C27_WhenHistoryStoreWorks ==
    \A t \in Threads : RealExecution(t) =>
        /\ CreatedFirst(t)
        /\ (Applied(t) /\ exec[t].created # <<>> /\ ~exec[t].caught) =>
              /\ UpdatedOnce(t)
              /\ Record(t).status # "in_progress"

\* a real execution ended with its record still in progress
C27_LeftInProgress ==
    \E t \in Threads :
        /\ RealExecution(t)
        /\ Applied(t)
        /\ exec[t].created # <<>>
        /\ Record(t).status = "in_progress"

\* a real execution with a failed install ended with its record failed
C27_FailedRecord ==
    \E t \in Threads :
        /\ RealExecution(t)
        /\ Applied(t)
        /\ ~exec[t].caught
        /\ exec[t].outcomes = <<TRUE, FALSE>>
        /\ Record(t).status = "failed"
        /\ Record(t).error = <<"Failed to update linux-image-generic">>

\* the install of a package of thread t's plan is running
Installing(t) == RealExecution(t) /\ pc[t] = "apply_install"

\* C30: there is no mutual exclusion between real executions: when two
\* threads call apply_patch_plan with dry_run false concurrently, a state in
\* which install actions of both calls are in flight at the same time is
\* reachable.  As an invariant: a real execution that is about to create its
\* record can always take that step, also while another real execution is
\* refreshing, installing or updating its record.
C30_NeverBlocked ==
    \A t \in Threads : (RealExecution(t) /\ pc[t] = "apply_record") => ENABLED ApplyRecord(t)

\* both threads have an install running, each of its own history record
C30_Witness ==
    /\ \A t \in Threads : Installing(t)
    /\ exec["t1"].install_id # exec["t2"].install_id
    /\ \A t \in Threads : Record(t).status = "in_progress"

\* the step is one of thread t's apply_patch_plan call
ApplyStep(t) == exec'[t] # exec[t]

\* the step leaves the gate alone: its lock, its timestamp, its log
GateUntouched ==
    /\ apt_update_lock' = apt_update_lock
    /\ apt_last_updated' = apt_last_updated
    /\ refresh_log' = refresh_log

\* C32: the index refresh of a real execution does not go through the
\* refresh gate: apply_patch_plan in real mode invokes the external refresh
\* exactly once per call even when the gate's timestamp is less than 300
\* seconds old, does not take the gate's lock, and leaves the gate's shared
\* timestamp unchanged.
C32_RefreshBypassesGate ==
    [][\A t \in Threads :
          /\ ApplyStep(t) => GateUntouched
          /\ RealExecution(t)' => apt_update_lock' # t
          /\ (RealExecution(t) /\ Applied(t))' => Len(exec'[t].refreshes) = 1]_vars

\* C32, for the real executions that got their history record created
C32_OnceRecorded ==
    [][\A t \in Threads :
          /\ ApplyStep(t) => GateUntouched
          /\ RealExecution(t)' => apt_update_lock' # t
          /\ (RealExecution(t) /\ Applied(t) /\ exec[t].created # <<>>)' =>
                Len(exec'[t].refreshes) = 1]_vars

\* a real execution refreshed the index although the gate's timestamp was
\* fresh, and the timestamp is as the gate left it
C32_FreshYetRefreshed ==
    \E t \in Threads :
        /\ RealExecution(t)
        /\ Applied(t)
        /\ Len(exec[t].refreshes) = 1
        /\ Len(refresh_log) = 1
        /\ apt_last_updated = Some(refresh_log[1].now)
        /\ exec[t].start_time - refresh_log[1].now < APT_UPDATE_INTERVAL_SECONDS

\* a real execution ended without any refresh: its record was never created
C32_NoRefresh ==
    \E t \in Threads :
        /\ RealExecution(t)
        /\ Applied(t)
        /\ exec[t].raised
        /\ exec[t].refreshes = <<>>

\* a real execution of thread t that ended without an unexpected exception
CleanEnd(t) == Returned(t) /\ RealRun(t) /\ ~exec[t].caught

RefreshMessages(t) ==
    {j \in DOMAIN Result(t).errors : Result(t).errors[j] = "Failed to update package list"}

\* C33: in a real execution that ends without an unexpected exception,
\* success is true iff the error list is empty iff the index refresh
\* succeeded and every package install succeeded; a failed index refresh
\* adds one error and makes success false (and the history record FAILED)
\* even when every package was installed, and it does not stop the installs
\* from being attempted.
C33_RefreshFailureCounts ==
    \A t \in Threads : CleanEnd(t) =>
        /\ Result(t).success <=> Result(t).errors = <<>>
        /\ Result(t).errors = <<>> <=>
              (exec[t].refreshes = <<TRUE>> /\ InstallsFailed(t) = {})
        /\ Len(exec[t].outcomes) = Len(PlanNames(t))
        /\ exec[t].refreshes = <<FALSE>> =>
              /\ Cardinality(RefreshMessages(t)) = 1
              /\ ~Result(t).success
              /\ Record(t).status = "failed"
        /\ exec[t].refreshes = <<TRUE>> => RefreshMessages(t) = {}

\* the refresh failed, both installs succeeded: success is false, the one
\* error is that of the refresh and the record is failed
C33_Witness ==
    \E t \in Threads :
        /\ CleanEnd(t)
        /\ exec[t].refreshes = <<FALSE>>
        /\ exec[t].outcomes = <<TRUE, TRUE>>
        /\ Result(t).packages_updated = <<"openssl", "linux-image-generic">>
        /\ Result(t).errors = <<"Failed to update package list">>
        /\ ~Result(t).success
        /\ Record(t).status = "failed"

\* the vulnerabilities of the plan whose package is a key of
\* packages_to_update
Covered(t) ==
    {i \in DOMAIN exec[t].plan.vulnerabilities :
        \E j \in DOMAIN PlanNames(t) :
            PlanNames(t)[j] = exec[t].plan.vulnerabilities[i].package_name}

\* C34: in a real execution that ends without an unexpected exception,
\* vulnerabilities_patched equals the size of the plan's filtered
\* vulnerability list whatever the outcome of the installs: it also counts
\* the vulnerabilities of packages whose install failed and of packages that
\* were left out of packages_to_update for lack of a candidate version.
C34_CountsWholeList ==
    \A t \in Threads : CleanEnd(t) =>
        Result(t).vulnerabilities_patched = Len(exec[t].plan.vulnerabilities)

\* the plan lists a vulnerability of a package left out of
\* packages_to_update and one of a package whose install failed: nothing was
\* updated and both are reported as patched
C34_Witness ==
    \E t \in Threads :
        /\ CleanEnd(t)
        /\ Cardinality(Covered(t)) = 1
        /\ Len(exec[t].plan.vulnerabilities) = 2
        /\ exec[t].outcomes = <<FALSE>>
        /\ Result(t).packages_updated = <<>>
        /\ Result(t).vulnerabilities_patched = 2

\* both installs failed, and the three vulnerabilities of the plan are
\* reported as patched
C34_AllFailed ==
    \E t \in Threads :
        /\ CleanEnd(t)
        /\ exec[t].outcomes = <<FALSE, FALSE>>
        /\ Result(t).packages_updated = <<>>
        /\ Result(t).vulnerabilities_patched = 3

(***************************************************************************)
(* Claims about SecurityScheduler (specification SpecSched).               *)
(***************************************************************************)
\* the step is a call of the operation for the schedule id
SchedStep(name, id) ==
    /\ calls' = calls + 1
    /\ sched_call'.op = name
    /\ sched_call'.schedule_id = id

\* the next_run of a schedule of the frequency, computed at time now
ExpectedNextRun(frequency, now) ==
    CASE frequency = "DAILY" -> Some(IsoFormat(now + 86400))
      [] frequency = "WEEKLY" -> Some(IsoFormat(now + 604800))
      [] frequency = "MONTHLY" -> Some(IsoFormat(now + 2592000))
      [] frequency = "CUSTOM" -> None

\* C17: the next-run timestamp computed when a schedule is created or has run
\* is exactly the current time plus 1 day for DAILY, plus 7 days for WEEKLY
\* and plus 30 days for MONTHLY, and is absent for CUSTOM, also when a custom
\* cron expression is given.
C17_NextRunExact ==
    [][\A id \in ScheduleIds :
          (\/ SchedStep("create_schedule", id)
           \/ SchedStep("run_schedule", id) /\ sched_call'.last_now # None) =>
              /\ id \in DOMAIN schedules'
              /\ schedules'[id].next_run =
                    ExpectedNextRun(schedules'[id].frequency, clock')]_vars

\* a MONTHLY schedule has run at a time after the start and took a tick
\* between the reading of last_run and the reading of next_run
C17_Witness ==
    /\ sched_call.op = "run_schedule"
    /\ sched_call.last_now = Some(TickSeconds)
    /\ sched_call.calc_now = Some(clock)
    /\ clock = 2 * TickSeconds
    /\ schedules[sched_call.schedule_id].frequency = "MONTHLY"
    /\ schedules[sched_call.schedule_id].next_run = Some(IsoFormat(clock + 2592000))

\* C18: create_schedule with an id that already exists replaces the stored
\* schedule entirely (last write wins, no merge): afterwards the manager
\* holds exactly one schedule under that id, every field comes from the last
\* call and last_run is unset, and all schedules with other ids are unchanged.
C18_CreateReplaces ==
    [][\A id \in ScheduleIds :
          SchedStep("create_schedule", id) /\ id \in DOMAIN schedules =>
              /\ DOMAIN schedules' = DOMAIN schedules
              /\ schedules'[id].schedule_id = id
              /\ schedules'[id].frequency = Val(sched_call'.args).frequency
              /\ schedules'[id].scan_enabled = Val(sched_call'.args).scan_enabled
              /\ schedules'[id].patch_enabled = Val(sched_call'.args).patch_enabled
              /\ schedules'[id].patch_strategy = Val(sched_call'.args).patch_strategy
              /\ schedules'[id].dry_run = Val(sched_call'.args).dry_run
              /\ schedules'[id].custom_cron = Val(sched_call'.args).custom_cron
              /\ schedules'[id].next_run =
                    ExpectedNextRun(Val(sched_call'.args).frequency, clock)
              /\ schedules'[id].last_run = None
              /\ \A other \in DOMAIN schedules \ {id} :
                    schedules'[other] = schedules[other]]_vars

\* the schedule "nightly", which had run, is created again with another
\* frequency while the schedule "monthly" is stored
C18_Witness ==
    /\ sched_call.op = "create_schedule"
    /\ sched_call.schedule_id = "nightly"
    /\ sched_call.previous # None
    /\ Val(sched_call.previous).last_run # None
    /\ Val(sched_call.previous).frequency # schedules["nightly"].frequency
    /\ schedules["nightly"].last_run = None
    /\ DOMAIN schedules = {"nightly", "monthly"}

\* C19: run_schedule with an id that is not in the schedule map fails with a
\* not-found error (ValueError) and mutates nothing: the in-memory schedules
\* and the persisted document are unchanged and neither the scanner nor the
\* patcher is invoked.
C19_UnknownIdNoEffect ==
    [][\A id \in ScheduleIds :
          SchedStep("run_schedule", id) /\ id \notin DOMAIN schedules =>
              /\ sched_call'.raised = Some("ValueError")
              /\ sched_call'.results = None
              /\ schedules' = schedules
              /\ schedule_file' = schedule_file
              /\ sched_call'.scanner_calls = <<>>
              /\ sched_call'.patcher_calls = <<>>
              /\ sched_call'.saves = <<>>]_vars

\* run_schedule("monthly") has failed on a scheduler that holds "nightly" only
C19_Witness ==
    /\ sched_call.op = "run_schedule"
    /\ sched_call.schedule_id = "monthly"
    /\ sched_call.raised = Some("ValueError")
    /\ DOMAIN schedules = {"nightly"}
    /\ schedule_file # None

\* an exception was raised in the scan/patch block of the call
BlockRaised(c) ==
    \/ \E i \in DOMAIN c.scanner_calls : c.scanner_calls[i] = "raised"
    \/ \E i \in DOMAIN c.patcher_calls : c.patcher_calls[i].outcome = "raised"

Mutated ==
    /\ sched_call.raised = None
    /\ \/ sched_call.op = "create_schedule"
       \/ sched_call.op = "delete_schedule" /\ sched_call.deleted = Some(TRUE)
       \/ sched_call.op = "run_schedule" /\ sched_call.last_now # None

\* the document holds exactly the schedules, field by field
HoldsSchedules(file) ==
    /\ file # None
    /\ DOMAIN Val(file) = DOMAIN schedules
    /\ \A id \in DOMAIN schedules :
          /\ Val(file)[id].schedule_id = schedules[id].schedule_id
          /\ Val(file)[id].frequency = FrequencyValue(schedules[id].frequency)
          /\ Val(file)[id].scan_enabled = schedules[id].scan_enabled
          /\ Val(file)[id].patch_enabled = schedules[id].patch_enabled
          /\ Val(file)[id].patch_strategy = schedules[id].patch_strategy
          /\ Val(file)[id].dry_run = schedules[id].dry_run
          /\ Val(file)[id].last_run = schedules[id].last_run
          /\ Val(file)[id].next_run = schedules[id].next_run
          /\ Val(file)[id].custom_cron = schedules[id].custom_cron

Malformed(file) ==
    /\ file # None
    /\ "min_severity" \in DOMAIN Val(file)
    /\ Val(file).min_severity \notin
          {"critical", "high", "medium", "low", "unknown",
           "CRITICAL", "HIGH", "MEDIUM", "LOW", "UNKNOWN"}

\* the step constructs a patcher
Constructs == calls' = calls + 1

\* C22: constructing the patcher never fails because of the filter
\* configuration document: with no document the filters are the defaults
\* (empty whitelist, empty blacklist, MEDIUM floor), and with a malformed
\* document (any field that fails to load, e.g. an invalid min_severity) all
\* three filters keep their default values.
C22_DefaultsOnBadDocument ==
    [][Constructs /\ (patcher_config = None \/ Malformed(patcher_config)) =>
          /\ whitelist' = {}
          /\ blacklist' = {}
          /\ min_severity' = "medium"]_vars

\* C22, the part that holds: with no document the filters are the defaults,
\* and with a malformed min_severity the floor is the default MEDIUM
C22_DefaultFloor ==
    [][Constructs =>
          /\ patcher_config = None =>
                whitelist' = {} /\ blacklist' = {} /\ min_severity' = "medium"
          /\ Malformed(patcher_config) => min_severity' = "medium"]_vars

(***************************************************************************)
(* Claims about DependencyResolver.resolve (specification SpecResolve).    *)
(***************************************************************************)
Resolved == resolved # None
ResolveRaised == Resolved /\ Val(resolved).raised # None
ResolveReturned == Resolved /\ Val(resolved).returned # None
LacksRequiredKey == {"package_a", "package_b", "dependency"} \ DOMAIN conflict_data # {}
LacksPackageField ==
    /\ ~LacksRequiredKey
    /\ \/ "requires" \notin DOMAIN conflict_data.package_a
       \/ "requires" \notin DOMAIN conflict_data.package_b
       \/ "name" \notin DOMAIN conflict_data.package_a
       \/ "name" \notin DOMAIN conflict_data.package_b

\* C23: resolve raises KeyError and returns no strategy list whenever
\* conflict_data lacks any of the keys 'package_a', 'package_b' or
\* 'dependency', and this is the only input failure that propagates to the
\* caller as an exception rather than as a result.
C23_Original ==
    Resolved =>
        /\ LacksRequiredKey =>
              /\ ResolveRaised
              /\ Val(Val(resolved).raised).type = "KeyError"
              /\ Val(resolved).returned = None
        /\ ResolveRaised => LacksRequiredKey

\* C23 as it holds: a missing required key always raises KeyError with no
\* list returned; a call raises or returns, never both; and the only other
\* failure that propagates is the KeyError of a package dict that lacks
\* 'requires' or 'name'.
C23_KeyErrorOnMissingKey ==
    Resolved =>
        /\ LacksRequiredKey =>
              /\ ResolveRaised
              /\ Val(Val(resolved).raised).type = "KeyError"
              /\ Contains("Missing required key", Val(Val(resolved).raised).arg)
              /\ Val(resolved).returned = None
        /\ ResolveRaised # ResolveReturned
        /\ ResolveRaised =>
              /\ Val(Val(resolved).raised).type = "KeyError"
              /\ LacksRequiredKey \/ LacksPackageField

C23_Witness ==
    /\ ResolveRaised
    /\ "dependency" \notin DOMAIN conflict_data
    /\ "package_a" \in DOMAIN conflict_data

\* the test's input: only package_a is given, as an empty-handed dict
C23_TestWitness ==
    /\ ResolveRaised
    /\ DOMAIN conflict_data = {"package_a"}

WellFormed ==
    /\ ~LacksRequiredKey
    /\ ~LacksPackageField

RawA == LStrip(conflict_data.package_a.requires, OperatorChars)
RawB == LStrip(conflict_data.package_b.requires, OperatorChars)
Parse == Coerce(RawA).version # None /\ Coerce(RawB).version # None
Strategies == Val(Val(resolved).returned)

ErrorShape ==
    /\ Len(Strategies) = 1
    /\ Strategies[1].id = 0
    /\ Strategies[1].type = "Error"
    /\ Strategies[1].risk = "High"
    /\ Contains("Manual resolution required", Strategies[1].action)

TwoStrategyShape ==
    /\ Len(Strategies) = 2
    /\ Strategies[1].id = 1
    /\ Strategies[1].type = "Recommended"
    /\ Contains("Update " \o conflict_data.package_b.name \o " to "
                   \o Val(Coerce(RawA).version).text, Strategies[1].action)
    /\ Strategies[2].id = 2
    /\ Strategies[2].type = "Alternative"

AllFields ==
    \A i \in 1..Len(Strategies) :
        DOMAIN Strategies[i] = {"id", "type", "action", "risk"}

\* C24: for a conflict that has all required keys, resolve returns a
\* non-empty list in exactly one of two shapes: a single 'Error' strategy
\* (id 0, risk 'High', action containing 'Manual resolution required') when
\* a requirement of package_a or package_b does not parse as a semantic
\* version, and otherwise exactly two strategies, id 1 'Recommended' (action
\* 'Update <package_b name> to <package_a version>') then id 2
\* 'Alternative'; every strategy has the fields id, type, action and risk.
C24_Original ==
    Resolved /\ ~LacksRequiredKey =>
        /\ ResolveReturned
        /\ IF Parse THEN TwoStrategyShape ELSE ErrorShape
        /\ AllFields

\* C24 as it holds: the same, for a conflict whose two package dicts carry
\* both 'name' and 'requires'.
C24_TwoShapes ==
    Resolved /\ WellFormed =>
        /\ ResolveReturned
        /\ Len(Strategies) > 0
        /\ IF Parse THEN TwoStrategyShape /\ ~ErrorShape
                    ELSE ErrorShape /\ ~TwoStrategyShape
        /\ AllFields

C24_Witness ==
    /\ ResolveReturned
    /\ conflict_data = [dependency |-> "lib-x",
                        package_a |-> [name |-> "pkg-a", requires |-> "^2.0.0"],
                        package_b |-> [name |-> "pkg-b", requires |-> "~1.9.0"]]
    /\ Strategies[1].action = "Update pkg-b to 2.0.0 (compatible with lib-x)"
    /\ Strategies[1].risk = "Medium (breaking changes detected)"

C24_ErrorWitness ==
    /\ ResolveReturned
    /\ WellFormed
    /\ conflict_data.package_a.requires = "invalid-version"
    /\ conflict_data.package_b.requires = "1.0.0"
    /\ Strategies[1].type = "Error"

C24_ComplexWitness ==
    /\ ResolveReturned
    /\ WellFormed
    /\ conflict_data.package_a.requires = ">=1.0.0,<2.0.0"
    /\ conflict_data.package_b.requires = "1.5.0"
    /\ Strategies[1].action = "Update pkg-b to 1.0.0--2.0.0 (compatible with lib-x)"

(***************************************************************************)
(* Claims about the patching of a scheduled run (specification SpecSched). *)
(***************************************************************************)
Urgent == {"critical", "high"}
UrgentFindings == {k \in DOMAIN sched_call.found : sched_call.found[k].severity \in Urgent}

\* C28: in a scheduled run only the scan findings of severity Critical or
\* High are handed to the patcher, whatever the schedule's strategy and the
\* configured minimum severity; so run_schedule never updates a package whose
\* scan findings are all Medium, Low or Unknown, even under strategy
\* AUTOMATIC with a LOW floor and even if the package is whitelisted.
C28_OnlyCriticalOrHighPatched ==
    sched_call.op = "run_schedule" =>
        \A i \in DOMAIN sched_call.patcher_calls :
            LET c == sched_call.patcher_calls[i]
            IN  /\ \A j \in DOMAIN c.to_patch :
                      /\ c.to_patch[j].severity \in Urgent
                      /\ \E k \in UrgentFindings : sched_call.found[k] = c.to_patch[j]
                /\ Len(c.to_patch) = Cardinality(UrgentFindings)
                /\ \A j \in DOMAIN c.updated :
                      \E k \in UrgentFindings :
                          sched_call.found[k].package_name = c.updated[j]

\* a real run under AUTOMATIC found a critical and a medium vulnerability
\* and updated only the package of the critical one
C28_Witness ==
    /\ sched_call.op = "run_schedule"
    /\ Len(sched_call.patcher_calls) = 1
    /\ sched_call.patcher_calls[1].strategy = "automatic"
    /\ ~sched_call.patcher_calls[1].dry_run
    /\ \E k \in DOMAIN sched_call.found :
          /\ sched_call.found[k].severity = "medium"
          /\ sched_call.found[k].package_name = "linux-image-generic"
    /\ sched_call.patcher_calls[1].to_patch =
          <<[package_name |-> "openssl", severity |-> "critical"]>>
    /\ sched_call.patcher_calls[1].updated = <<"openssl">>

\* the scan found only a low vulnerability: the patcher was handed nothing
C28_NothingHanded ==
    /\ sched_call.op = "run_schedule"
    /\ Len(sched_call.found) = 1
    /\ Len(sched_call.patcher_calls) = 1
    /\ sched_call.patcher_calls[1].to_patch = <<>>
    /\ sched_call.patcher_calls[1].updated = <<>>

(***************************************************************************)
(* Claims about the filters over time (specification SpecFilters).         *)
(***************************************************************************)
\* C31: the blacklist only grows: after add_to_blacklist(p), for every
\* later sequence of add_to_whitelist, add_to_blacklist and set_min_severity
\* calls on that patcher (including add_to_whitelist(p)) and for every
\* strategy, _should_patch returns false for every vulnerability of p, and
\* no plan created by that patcher has p as a key of packages_to_update.
C31_BlacklistOnlyGrows ==
    [][/\ blacklist \subseteq blacklist'
       /\ decision' # None =>
             (Val(decision').v.package_name \in blacklist' => ~Val(decision').result)
       /\ pc'[Planner] = "plan_ret" =>
             \A i \in DOMAIN Val(plan'[Planner].returned).packages_to_update :
                 Val(plan'[Planner].returned).packages_to_update[i].package
                     \notin blacklist']_vars

\* openssl was blacklisted and then whitelisted, the floor is LOW and the
\* strategy AUTOMATIC: _should_patch refused its critical vulnerability and
\* the plan made for it is empty
C31_Witness ==
    /\ "openssl" \in blacklist
    /\ "openssl" \in whitelist
    /\ strategy = "automatic"
    /\ min_severity = "low"
    /\ decision # None
    /\ DecidedPkg = "openssl"
    /\ DecidedSev = "critical"
    /\ DecidedResult = FALSE
    /\ PlanReturned(Planner)
    /\ plan[Planner].vulns = <<[package_name |-> "openssl", severity |-> "critical"]>>
    /\ ReturnedPlan(Planner).packages_to_update = <<>>

\* a package that is not blacklisted does get into a plan
C31_OtherPackagePlanned ==
    /\ blacklist = {"linux-image-generic"}
    /\ PlanReturned(Planner)
    /\ PlanKeys(Planner) = {"openssl"}

(***************************************************************************)
(* Claims about runs and stored schedules (specification SpecSched).       *)
(***************************************************************************)
\* the step runs schedule id, which is stored with scanning disabled
RunsScanDisabled(id) ==
    /\ SchedStep("run_schedule", id)
    /\ id \in DOMAIN schedules
    /\ ~schedules[id].scan_enabled

\* nothing external is invoked and the schedule advances
NothingInvokedAndAdvanced(id) ==
    /\ sched_call'.scanner_calls = <<>>
    /\ sched_call'.patcher_calls = <<>>
    /\ sched_call'.raised = None
    /\ Val(sched_call'.results).scan_result = None
    /\ Val(sched_call'.results).patch_result = None
    /\ sched_call'.last_now # None
    /\ schedules'[id].last_run = Some(IsoFormat(Val(sched_call'.last_now)))
    /\ schedules'[id].next_run = ExpectedNextRun(schedules[id].frequency, clock')

\* C35: a schedule with scanning disabled never invokes the scanner, the
\* planner or the executor when run, even when patching is enabled on it;
\* such a run still returns success = true with no scan and no patch result
\* and still advances last_run and next_run.
C35_ScanDisabledRun ==
    [][\A id \in ScheduleIds : RunsScanDisabled(id) =>
          /\ NothingInvokedAndAdvanced(id)
          /\ Val(sched_call'.results).success = TRUE]_vars

\* C35, with the result as the code gives it: success is true unless
\* _save_schedules raised, and then the one error is that of the exception
C35_SuccessUnlessSaveRaises ==
    [][\A id \in ScheduleIds : RunsScanDisabled(id) =>
          /\ NothingInvokedAndAdvanced(id)
          /\ sched_call'.saves # <<"raised">> =>
                /\ Val(sched_call'.results).success = TRUE
                /\ Val(sched_call'.results).errors = <<>>
          /\ sched_call'.saves = <<"raised">> =>
                /\ Val(sched_call'.results).success = FALSE
                /\ Len(Val(sched_call'.results).errors) = 1]_vars

\* a schedule with scanning disabled and patching enabled has run: nothing
\* was invoked, the run succeeded and the schedule advanced
C35_QuietRun ==
    /\ sched_call.op = "run_schedule"
    /\ sched_call.previous # None
    /\ ~Val(sched_call.previous).scan_enabled
    /\ Val(sched_call.previous).patch_enabled
    /\ sched_call.scanner_calls = <<>>
    /\ sched_call.patcher_calls = <<>>
    /\ Val(sched_call.results).success = TRUE
    /\ schedules[sched_call.schedule_id].last_run # None

\* the same run with ~/.cortex impossible to create: the schedule advanced
\* in memory and the run is reported failed
C35_FailedAfterAdvance ==
    /\ sched_call.op = "run_schedule"
    /\ sched_call.previous # None
    /\ ~Val(sched_call.previous).scan_enabled
    /\ sched_call.saves = <<"raised">>
    /\ Val(sched_call.results).success = FALSE
    /\ Val(sched_call.previous).last_run = None
    /\ schedules[sched_call.schedule_id].last_run # None

\* datetime.fromisoformat(s), in seconds: the inverse of isoformat()
FromIsoFormat(s) ==
    LET k == Find(s, "T", 1)
    IN  ToInt(SubSeq(s, 1, k - 1)) * SecondsPerDay + ToInt(From(s, k + 1))

\* the least number of days between a run and the next one
PeriodDays(frequency) ==
    CASE frequency = "DAILY" -> 1
      [] frequency = "WEEKLY" -> 7
      [] frequency = "MONTHLY" -> 30

\* C36: in every state reachable by create_schedule, run_schedule and
\* delete_schedule calls, each stored schedule has next_run unset if and only
\* if its frequency is CUSTOM, and each schedule with a set last_run and a
\* DAILY, WEEKLY or MONTHLY frequency has next_run at least last_run plus
\* 1, 7 or 30 days respectively.
C36_NextRunFollowsLastRun ==
    \A id \in DOMAIN schedules :
        LET schedule == schedules[id]
        IN  /\ schedule.next_run = None <=> schedule.frequency = "CUSTOM"
            /\ (schedule.last_run # None /\ schedule.frequency # "CUSTOM") =>
                   FromIsoFormat(Val(schedule.next_run)) >=
                       FromIsoFormat(Val(schedule.last_run))
                           + PeriodDays(schedule.frequency) * SecondsPerDay

\* a WEEKLY schedule has been created and has run, and the clock moved
\* between the two reads of the run: next_run is later than last_run plus
\* seven days
C36_Witness ==
    /\ sched_call.op = "run_schedule"
    /\ sched_call.schedule_id \in DOMAIN schedules
    /\ LET schedule == schedules[sched_call.schedule_id]
       IN  /\ schedule.frequency = "WEEKLY"
           /\ schedule.last_run # None
           /\ schedule.next_run # None
           /\ FromIsoFormat(Val(schedule.next_run)) >
                  FromIsoFormat(Val(schedule.last_run)) + 7 * SecondsPerDay

\* a CUSTOM schedule has run: last_run is set and next_run is still unset
C36_CustomHasRun ==
    \E id \in DOMAIN schedules :
        /\ schedules[id].frequency = "CUSTOM"
        /\ schedules[id].last_run # None
        /\ schedules[id].next_run = None

====
